---------------------------- MODULE Spec2Model ----------------------------
(***************************************************************************)
(* A model of the transport core of mardromus/SimpleOperator (crate        *)
(* quic_fec): packet format, receiver, multipath scheduler, handover       *)
(* coordinator, fallback state machine and FEC codec.  Each component has  *)
(* its own variables and its own specification; a component's actions      *)
(* leave the other components' variables unchanged.                        *)
(***************************************************************************)
EXTENDS Integers, Sequences, FiniteSets, TLC

VARIABLES
    pkt,            \* packet.rs: the QuicFecPacket built by new_data
    wire,           \* packet.rs: the bytes produced by to_bytes
    parsed,         \* packet.rs: the result of from_bytes on the wire bytes
    rxCount,        \* receiver: n, the number of Data packets the sender emits
    rxPending,      \* receiver: sequences not yet handed to the receiver
    rxStreams,      \* receiver.rs: QuicReceiver.streams (stream_id -> StreamState)
    rxDelivered,    \* receiver: the Some(bytes) values receive_packet returned, in order
    rxUpdated,      \* receiver.rs: the stream ids in the order of StreamState.last_update
    rxDuplicates,   \* receiver: the number of packets received a second time
    rxShards,       \* receiver: the shards of the FEC block that are under way
    rxDropped,      \* receiver: the shards of the FEC block dropped in transit
    rxFecBlock,     \* receiver.rs: QuicReceiver.fec_decoder.blocks, the entry of the block
    fec_recovered,  \* receiver.rs: QuicReceiver.fec_recovered
    schedPaths,     \* scheduler.rs: MultipathScheduler.paths (path -> PathStats)
    schedOrder,     \* scheduler.rs: the order in which paths.iter() visits the table
    schedQueues,    \* scheduler.rs: MultipathScheduler.queues (priority -> VecDeque)
    medium_rr_counter, \* scheduler.rs: MultipathScheduler.medium_rr_counter
    schedScheduled, \* scheduler: packets_scheduled, the number of schedule() calls
    schedOut,       \* scheduler: the pairs the last next_packet / batch call returned
    schedHung,      \* scheduler: a get_multipath_batch call is in a loop that never ends
    hoPaths,        \* handover_enhanced.rs: EnhancedHandoverManager.paths (path -> PathHistory)
    hoCurrent,      \* handover_enhanced.rs: EnhancedHandoverManager.current_path
    hoInFlight,     \* handover_enhanced.rs: EnhancedHandoverManager.in_flight (path -> Vec)
    hoEvents,       \* handover_enhanced.rs: EnhancedHandoverManager.handover_events
    hoHistory,      \* handover_enhanced.rs: the samples and baseline of each PathHistory
    hoNow,          \* handover_enhanced.rs: Instant::now(), in milliseconds
    hoDecision,     \* handover_enhanced.rs: what should_handover returned last
    ftFile,         \* file transfer: the file the client sends
    ftTransfers,    \* file_transfer.rs: FileTransferHandler.active_transfers
    ftChunkStorage, \* file_transfer.rs: FileTransferHandler.chunk_storage
    ftTempFiles,    \* file_transfer.rs: the chunk files under temp_path
    ftStoredFiles,  \* file_transfer.rs: the files under storage_path
    ftReplies,      \* server.rs: what handle_message sent for the last message
    ssSessions,     \* session.rs: SessionManager.sessions
    ssNow,          \* session.rs: Instant::now(), in seconds
    ssReturned,     \* session.rs: what get_session returned last
    decBlocks,      \* fec_enhanced.rs: EnhancedFecDecoder.blocks, every block held
    decLatest,      \* fec_enhanced.rs: the block_id of the newest block that arrived
    ftCalls,        \* file_transfer.rs: where each concurrent store_chunk call stands
    ftStarted,      \* file_transfer.rs: the request each transfer was started with
    tbBuffer,       \* buffer.rs: TelemetryBuffer.buffer
    tbMaxSize,      \* buffer.rs: TelemetryBuffer.max_size
    tbNow,          \* buffer.rs: SystemTime::now() in seconds
    tbAdded,        \* buffer.rs: the calls of add made; the data of the next chunk
    tbEvicted,      \* buffer.rs: the chunk the last add took out of the full buffer
    clPc,           \* file_transfer.rs: where the task in cleanup_incomplete stands
    clLocks,        \* file_transfer.rs: the locks the task in cleanup_incomplete holds
    clToRemove,     \* file_transfer.rs: to_remove, what is left of it
    clChunks,       \* file_transfer.rs: the chunk paths still to be removed
    clAwait,        \* file_transfer.rs: the path whose fs::remove_file is awaited
    clCalls,        \* the calls of cleanup_incomplete made
    hmCurrent,      \* handover.rs: HandoverManager.current_path
    hmInProgress,   \* handover.rs: HandoverManager.handover_in_progress
    hmLast,         \* handover.rs: HandoverManager.last_handover is Some
    hmCalls,        \* connection.rs: where each task's check_handover stands
    hmSent,         \* connection.rs: the paths named by the Handover packets sent
    xfClient,       \* file_client.rs: where transfer_file stands, and the client's transfer
    xfToServer,     \* file_client.rs: the messages sent and not yet read by the server
    xfToClient,     \* server.rs: the messages sent and not yet read by the client
    srvActive,      \* server.rs: the keys of active_connections
    srvPc,          \* server.rs: where handle_connection stands
    srvSessionId,   \* server.rs: session_id of handle_connection
    srvRead,        \* server.rs: the messages handle_connection has read, in order
    srvSent,        \* server.rs: what the handshake sent to the client
    fbState,        \* fallback.rs: FallbackManager.current_state
    fbStrategy,     \* fallback.rs: FallbackManager.strategy
    fbHistory,      \* fallback.rs: FallbackManager.fallback_history
    fbFailureCount, \* fallback.rs: FallbackManager.failure_count
    fbLastFailure,  \* fallback.rs: FallbackManager.last_failure_time
    fbNow,          \* fallback.rs: the reading of Instant::now(), in seconds
    fbCall,         \* fallback.rs: each caller's position in its call and its locals
    fbReturned,     \* fallback.rs: the call that returned last and the value it returned
    fecAlgorithm,   \* fec_enhanced.rs: the FecAlgorithm of the encoder and of the decoder
    fecConfig,      \* fec_enhanced.rs: the FecConfig of the encoder and of the decoder
    fecPayload,     \* fec_enhanced.rs: the data given to EnhancedFecEncoder::encode
    fecLost,        \* the indexes of the shards that do not reach the decoder
    fecEncoded,     \* fec_enhanced.rs: what EnhancedFecEncoder::encode returned
    fecBlock,       \* fec_enhanced.rs: EnhancedFecDecoder.blocks, the entry of the block
    fecReturned,    \* fec_enhanced.rs: what the last EnhancedFecDecoder::decode returned
    connConfig,     \* connection.rs: ConnectionConfig.fec_config
    connPayload,    \* connection.rs: the data given to QuicFecConnection::send
    connSent,       \* connection.rs: what FecEncoder::encode returned in send_with_fec
    connPending,    \* connection.rs: the shards of the block that are under way
    connDecoders,   \* connection.rs: QuicFecConnection.fec_decoders, the entry of the block
    connDelivered   \* connection.rs: the Some(bytes) values recv returned, in order

pktVars == <<pkt, wire, parsed>>
rxVars  == <<rxCount, rxPending, rxStreams, rxDelivered, rxUpdated, rxDuplicates,
             rxShards, rxDropped, rxFecBlock, fec_recovered>>
schedVars == <<schedPaths, schedOrder, schedQueues, medium_rr_counter,
               schedScheduled, schedOut, schedHung>>
hoVars == <<hoPaths, hoCurrent, hoInFlight, hoEvents, hoHistory, hoNow, hoDecision>>
fecVars == <<fecAlgorithm, fecConfig, fecPayload, fecLost, fecEncoded, fecBlock, fecReturned>>
ftVars == <<ftFile, ftTransfers, ftChunkStorage, ftTempFiles, ftStoredFiles, ftReplies>>
ssVars == <<ssSessions, ssNow, ssReturned>>
decVars == <<decBlocks, decLatest>>
scVars == <<ftCalls, ftStarted>>
tbVars == <<tbBuffer, tbMaxSize, tbNow, tbAdded, tbEvicted>>
clVars == <<clPc, clLocks, clToRemove, clChunks, clAwait, clCalls>>
hmVars == <<hmCurrent, hmInProgress, hmLast, hmCalls, hmSent>>
xfVars == <<xfClient, xfToServer, xfToClient>>
srvVars == <<srvPc, srvSessionId, srvRead, srvSent, srvActive>>
connVars == <<connConfig, connPayload, connSent, connPending, connDecoders, connDelivered>>
fbVars == <<fbState, fbStrategy, fbHistory, fbFailureCount, fbLastFailure, fbNow, fbCall,
           fbReturned>>

\* Option<T>: None is the empty sequence, Some(x) the sequence holding x.
None == <<>>
Some(x) == <<x>>

(***************************************************************************)
(* Bytes and integers on the wire                                          *)
(***************************************************************************)

\* BufMut::put_u64 / put_u32 / put_u16: w bytes, most significant first.
RECURSIVE BigEndian(_, _)
BigEndian(n, w) ==
    IF w = 0 THEN <<>> ELSE Append(BigEndian(n \div 256, w - 1), n % 256)

\* Buf::get_u64 / get_u32 / get_u16 on exactly the bytes of the field.
RECURSIVE FromBigEndian(_)
FromBigEndian(bytes) ==
    IF bytes = <<>> THEN 0
    ELSE 256 * FromBigEndian(SubSeq(bytes, 1, Len(bytes) - 1)) + bytes[Len(bytes)]

\* blake3_hash truncated to its first 16 bytes.  The digest is abstracted to
\* a polynomial fingerprint of the data, written as 16 bytes; it is a
\* function of the data alone and separates the payloads of the model.
RECURSIVE Fingerprint(_)
Fingerprint(data) ==
    IF data = <<>> THEN 7
    ELSE (Fingerprint(SubSeq(data, 1, Len(data) - 1)) * 31 + data[Len(data)] + 1) % 65521

Checksum16(data) == BigEndian(Fingerprint(data), 16)

(***************************************************************************)
(* packet.rs                                                               *)
(***************************************************************************)

PacketTypeData == 0
PacketTypeFecParity == 1
PacketTypeHandover == 2
PacketTypeAck == 3
PacketTypeHeartbeat == 4

\* PacketHeader::SIZE
HEADER_SIZE == 16

\* The widths PacketHeader::to_bytes writes and from_bytes reads, in order:
\* type, sequence, fec_block_id, shard_index, total_shards, data_len, checksum.
HeaderFieldWidths == <<1, 8, 4, 2, 2, 2, 16>>

RECURSIVE SumSeq(_)
SumSeq(s) == IF s = <<>> THEN 0 ELSE s[1] + SumSeq(Tail(s))

\* impl From<u8> for PacketType
PacketTypeFromU8(v) == IF v \in 0..4 THEN v ELSE PacketTypeData

\* QuicFecPacket::new_data
NewData(sequence, fec_block_id, shard_index, total_shards, data) ==
    [header |-> [packet_type  |-> PacketTypeData,
                 sequence     |-> sequence,
                 fec_block_id |-> fec_block_id,
                 shard_index  |-> shard_index,
                 total_shards |-> total_shards,
                 data_len     |-> Len(data) % 65536,
                 checksum     |-> Checksum16(data)],
     data   |-> data]

\* PacketHeader::to_bytes
HeaderToBytes(h) ==
    <<h.packet_type>>
        \o BigEndian(h.sequence, 8)
        \o BigEndian(h.fec_block_id, 4)
        \o BigEndian(h.shard_index, 2)
        \o BigEndian(h.total_shards, 2)
        \o BigEndian(h.data_len, 2)
        \o h.checksum

\* PacketHeader::from_bytes.  The length test uses SIZE; each get_* then
\* consumes its field and panics when fewer bytes remain than it reads.
HeaderFromBytes(data) ==
    IF Len(data) < HEADER_SIZE
    THEN [tag |-> "Err", error |-> "Header too short"]
    ELSE IF Len(data) < SumSeq(HeaderFieldWidths)
    THEN [tag |-> "Panic"]
    ELSE [tag |-> "Ok",
          header |-> [packet_type  |-> PacketTypeFromU8(data[1]),
                      sequence     |-> FromBigEndian(SubSeq(data, 2, 9)),
                      fec_block_id |-> FromBigEndian(SubSeq(data, 10, 13)),
                      shard_index  |-> FromBigEndian(SubSeq(data, 14, 15)),
                      total_shards |-> FromBigEndian(SubSeq(data, 16, 17)),
                      data_len     |-> FromBigEndian(SubSeq(data, 18, 19)),
                      checksum     |-> SubSeq(data, 20, 35)]]

\* QuicFecPacket::to_bytes
PacketToBytes(p) == HeaderToBytes(p.header) \o p.data

\* QuicFecPacket::verify
Verify(p) == Checksum16(p.data) = p.header.checksum

\* QuicFecPacket::from_bytes
PacketFromBytes(data) ==
    IF Len(data) < HEADER_SIZE
    THEN [tag |-> "Err", error |-> "Packet too short"]
    ELSE LET h == HeaderFromBytes(SubSeq(data, 1, HEADER_SIZE))
             payload == SubSeq(data, HEADER_SIZE + 1, Len(data))
         IN  IF h.tag # "Ok" THEN h
             ELSE IF Checksum16(payload) # h.header.checksum
             THEN [tag |-> "Err", error |-> "Checksum mismatch"]
             ELSE [tag |-> "Ok", packet |-> [header |-> h.header, data |-> payload]]

\* The inputs of the round trip: payloads, sequences, block ids, shard places.
MaxPayloadLen == 2
PayloadBytes == {0, 66, 255}
RECURSIVE SeqsUpTo(_, _)
SeqsUpTo(S, n) ==
    IF n = 0 THEN {<<>>}
    ELSE LET shorter == SeqsUpTo(S, n - 1)
         IN  shorter \cup {Append(s, b) : s \in {t \in shorter : Len(t) = n - 1}, b \in S}
Payloads == SeqsUpTo(PayloadBytes, MaxPayloadLen)
PktSequences == {0, 1, 300}
PktBlockIds == {0, 100}
PktShardIndexes == {0, 3}
PktTotalShards == {4, 6}

\* The packet component at rest, while another component is examined.
PktIdle ==
    /\ pkt = NewData(0, 0, 0, 1, <<>>)
    /\ wire = None
    /\ parsed = None

PktInit ==
    /\ pkt \in {NewData(s, b, i, t, p) : s \in PktSequences, b \in PktBlockIds,
                                          i \in PktShardIndexes, t \in PktTotalShards,
                                          p \in Payloads}
    /\ wire = None
    /\ parsed = None

\* serialized = packet.to_bytes()
Serialize ==
    /\ wire = None
    /\ wire' = Some(PacketToBytes(pkt))
    /\ UNCHANGED <<pkt, parsed>>

\* QuicFecPacket::from_bytes(&serialized)
Deserialize ==
    /\ wire # None
    /\ parsed = None
    /\ parsed' = Some(PacketFromBytes(wire[1]))
    /\ UNCHANGED <<pkt, wire>>

\* The payloads of the packets whose buffers arrive cut short.
BufferPayloads == {<<66>>, <<0, 66, 255, 66>>, <<255, 0, 66, 66, 0>>}

\* The lengths a buffer is cut to.
BufferLengths == {0, 15, 16, 19, 34, 35, 36}

PktBufferInit ==
    /\ pkt \in {NewData(s, b, i, t, p) : s \in PktSequences, b \in PktBlockIds,
                                          i \in PktShardIndexes, t \in PktTotalShards,
                                          p \in BufferPayloads}
    /\ wire = None
    /\ parsed = None

\* The buffer given to from_bytes holds only the first len bytes of what
\* was sent.
Truncate(len) ==
    /\ wire # None
    /\ parsed = None
    /\ len < Len(wire[1])
    /\ wire' = Some(SubSeq(wire[1], 1, len))
    /\ UNCHANGED <<pkt, parsed>>

(***************************************************************************)
(* receiver.rs                                                             *)
(***************************************************************************)

MaxPackets == 6

\* The payload carried by the Data packet with a given sequence: one byte,
\* different for every sequence.
PayloadOf(sequence) == <<65 + sequence>>

\* lz4_flex::decompress on a block made of one token.  A token announces
\* (token div 16) literal bytes; the block is an error when fewer bytes
\* follow, and decodes to the literals when exactly that many follow.
Lz4Decompress(block) ==
    LET literals == block[1] \div 16
    IN  IF block = <<>> \/ literals = 15 \/ Len(block) - 1 > literals
        THEN [tag |-> "Unmodelled"]
        ELSE IF Len(block) - 1 < literals
        THEN [tag |-> "Err"]
        ELSE [tag |-> "Ok", data |-> Tail(block)]

\* QuicReceiver::decompress_and_return
DecompressAndReturn(compressed) ==
    LET r == Lz4Decompress(compressed)
    IN  IF r.tag = "Ok" THEN r.data ELSE compressed

\* QuicReceiver::try_reassemble_stream: the packets found at
\* expected_sequence, expected_sequence + 1, ... in received_packets.
RECURSIVE ReassembleFrom(_, _)
ReassembleFrom(received_packets, next_expected) ==
    IF next_expected \in DOMAIN received_packets
    THEN LET rest == ReassembleFrom(received_packets, next_expected + 1)
         IN  [bytes |-> received_packets[next_expected] \o rest.bytes,
              next_expected |-> rest.next_expected]
    ELSE [bytes |-> <<>>, next_expected |-> next_expected]

TryReassembleStream(stream) ==
    LET r == ReassembleFrom(stream.received_packets, stream.expected_sequence)
    IN  IF stream.received_packets = <<>> \/ r.bytes = <<>>
        THEN [out |-> None, stream |-> stream]
        ELSE [out |-> Some(r.bytes),
              stream |-> [stream EXCEPT !.expected_sequence = r.next_expected]]

\* The key under which handle_data_packet files a packet: the stream id.
StreamIdOf(packet) == packet.header.sequence

\* streams.entry(stream_id).or_insert_with(..)
StreamEntry(streams, stream_id) ==
    IF stream_id \in DOMAIN streams THEN streams[stream_id]
    ELSE [expected_sequence |-> 0, received_packets |-> <<>>, reassembled |-> None]

\* m.insert(k, v) on a map kept as a function.
MapInsert(m, k, v) == [x \in DOMAIN m \cup {k} |-> IF x = k THEN v ELSE m[x]]

\* QuicReceiver::handle_data_packet
HandleDataPacket(streams, packet) ==
    LET stream_id == StreamIdOf(packet)
        sequence  == packet.header.sequence
        entry     == StreamEntry(streams, stream_id)
        stored    == [entry EXCEPT !.received_packets =
                          MapInsert(entry.received_packets, sequence, packet.data)]
        r         == TryReassembleStream(stored)
    IN  IF r.out = None
        THEN [streams |-> MapInsert(streams, stream_id, stored), out |-> None]
        ELSE [streams |-> MapInsert(streams, stream_id,
                                    [r.stream EXCEPT !.reassembled = r.out]),
              out |-> Some(DecompressAndReturn(r.out[1]))]

\* The receiver at rest: QuicReceiver::new, and nothing to receive.
RxIdle ==
    /\ rxCount = 0
    /\ rxPending = {}
    /\ rxStreams = <<>>
    /\ rxDelivered = <<>>
    /\ rxUpdated = <<>>
    /\ rxDuplicates = 0
    /\ rxShards = {}
    /\ rxDropped = {}
    /\ rxFecBlock = None
    /\ fec_recovered = 0

RxInit ==
    /\ rxCount \in 1..MaxPackets
    /\ rxPending = 0..(rxCount - 1)
    /\ rxStreams = <<>>
    /\ rxDelivered = <<>>
    /\ rxUpdated = <<>>
    /\ rxDuplicates = 0
    /\ rxShards = {}
    /\ rxDropped = {}
    /\ rxFecBlock = None
    /\ fec_recovered = 0

(***************************************************************************)
(* scheduler.rs                                                            *)
(***************************************************************************)

\* The priorities served from the least urgent to the most urgent.
PriorityOrderReversed == <<"Bulk", "Medium", "High", "Critical">>

\* enum PacketPriority, in declaration order (Critical = 0 .. Bulk = 3).
PriorityOrder == <<"Critical", "High", "Medium", "Bulk">>
Priorities == {PriorityOrder[i] : i \in 1..Len(PriorityOrder)}

\* enum NetworkPath; the scheduler is examined with SchedPaths of its variants.
NetworkPaths == {"WiFi", "FiveG", "Starlink", "Multipath"}
SchedPaths == {"WiFi", "FiveG"}

\* PathStats: rtt_ms in milliseconds, loss_rate in thousandths (0.05 is 50),
\* throughput_mbps in Mbps, queue_depth in packets.
StatsChoices ==
    { [rtt_ms |-> 20,  loss_rate |-> 1,   throughput_mbps |-> 100, queue_depth |-> 0],
      [rtt_ms |-> 100, loss_rate |-> 0,   throughput_mbps |-> 400, queue_depth |-> 0],
      [rtt_ms |-> 10,  loss_rate |-> 50,  throughput_mbps |-> 100, queue_depth |-> 0],
      [rtt_ms |-> 10,  loss_rate |-> 0,   throughput_mbps |-> 100, queue_depth |-> 100],
      [rtt_ms |-> 600, loss_rate |-> 120, throughput_mbps |-> 500, queue_depth |-> 600],
      [rtt_ms |-> 10,  loss_rate |-> 150, throughput_mbps |-> 900, queue_depth |-> 0] }

\* Scores are computed in units of 1/ScoreScale.
ScoreScale == 100000

Min(a, b) == IF a < b THEN a ELSE b
Max(a, b) == IF a > b THEN a ELSE b

\* PathStats::score
Score(stats, priority) ==
    CASE priority = "Critical" ->
            Max(0, (ScoreScale * 10) \div (10 + stats.rtt_ms)
                   - (ScoreScale * stats.loss_rate) \div 100)
      [] priority = "High" ->
            Max(0, (ScoreScale * 20) \div (20 + stats.rtt_ms)
                   - (ScoreScale * stats.loss_rate) \div 200
                   + Min((ScoreScale * stats.throughput_mbps) \div 100, ScoreScale \div 5))
      [] priority = "Medium" ->
            Max(0, (ScoreScale * 50) \div (50 + stats.rtt_ms)
                   + Min((ScoreScale * stats.throughput_mbps) \div 200, ScoreScale \div 2)
                   - (ScoreScale * stats.loss_rate) \div 500)
      [] priority = "Bulk" ->
            Max(0, Min((ScoreScale * stats.throughput_mbps) \div 500, ScoreScale)
                   - Min((ScoreScale * stats.rtt_ms) \div 200, (ScoreScale * 3) \div 10))

\* PathStats::is_healthy
IsHealthy(stats, priority) ==
    CASE priority = "Critical" ->
            stats.rtt_ms < 100 /\ stats.loss_rate < 50 /\ stats.queue_depth < 100
      [] priority = "High" ->
            stats.rtt_ms < 200 /\ stats.loss_rate < 70 /\ stats.queue_depth < 200
      [] priority = "Medium" ->
            stats.rtt_ms < 500 /\ stats.loss_rate < 100 /\ stats.queue_depth < 500
      [] priority = "Bulk" ->
            stats.loss_rate < 150

\* for (path, stats) in paths.iter(): the healthy path with the highest
\* score, the first met in iteration order among equals (score > best_score).
RECURSIVE BestByScore(_, _, _, _, _)
BestByScore(order, paths, priority, best_path, best_score) ==
    IF order = <<>> THEN best_path
    ELSE LET path == Head(order)
             score == Score(paths[path], priority)
         IN  IF IsHealthy(paths[path], priority) /\ score > best_score
             THEN BestByScore(Tail(order), paths, priority, Some(path), score)
             ELSE BestByScore(Tail(order), paths, priority, best_path, best_score)

\* The test on the packet's preference without its health check.
PreferenceKnown(priority, preference, paths) ==
    /\ preference # None
    /\ preference[1] \in DOMAIN paths

\* The test on the packet's preference in select_path_for_priority.
PreferenceUsable(priority, preference, paths) ==
    /\ preference # None
    /\ preference[1] \in DOMAIN paths
    /\ IsHealthy(paths[preference[1]], priority)

\* MultipathScheduler::select_path_for_priority
SelectPathForPriority(priority, preference, paths, order) ==
    IF PreferenceUsable(priority, preference, paths)
    THEN preference
    ELSE BestByScore(order, paths, priority, None, -ScoreScale)

\* available_paths of select_round_robin, in iteration order.
RECURSIVE FilterHealthy(_, _, _)
FilterHealthy(order, paths, priority) ==
    IF order = <<>> THEN <<>>
    ELSE IF IsHealthy(paths[Head(order)], priority)
    THEN <<Head(order)>> \o FilterHealthy(Tail(order), paths, priority)
    ELSE FilterHealthy(Tail(order), paths, priority)

\* select_round_robin without the counter in the index: the first healthy
\* path is taken every time.
SelectRoundRobinFirst(paths, order, counter) ==
    LET available_paths == FilterHealthy(order, paths, "Medium")
    IN  IF available_paths = <<>>
        THEN [path |-> None, counter |-> counter]
        ELSE [path |-> Some(available_paths[1]), counter |-> counter + 1]

\* MultipathScheduler::select_round_robin
SelectRoundRobin(paths, order, counter) ==
    LET available_paths == FilterHealthy(order, paths, "Medium")
    IN  IF available_paths = <<>>
        THEN [path |-> None, counter |-> counter]
        ELSE [path |-> Some(available_paths[(counter % Len(available_paths)) + 1]),
              counter |-> counter + 1]

\* The path next_packet selects for the head of a priority's queue.
SelectForHead(priority, packet, paths, order, counter) ==
    IF priority = "Medium"
    THEN SelectRoundRobin(paths, order, counter)
    ELSE [path |-> SelectPathForPriority(priority, packet.path_preference, paths, order),
          counter |-> counter]

\* next_packet with pop_back in place of pop_front: the packet scheduled last
\* leaves first.
RECURSIVE NextPacketFromBack(_, _, _, _, _, _)
NextPacketFromBack(i, priorities, paths, order, queues, counter) ==
    IF i > Len(priorities)
    THEN [out |-> <<>>, queues |-> queues, counter |-> counter]
    ELSE LET priority == priorities[i]
             queue == queues[priority]
         IN  IF queue = <<>>
             THEN NextPacketFromBack(i + 1, priorities, paths, order, queues, counter)
             ELSE LET sel == SelectForHead(priority, queue[Len(queue)], paths, order, counter)
                  IN  IF sel.path = None
                      THEN NextPacketFromBack(i + 1, priorities, paths, order, queues, counter)
                      ELSE [out |-> <<[packet |-> queue[Len(queue)], path |-> sel.path[1]]>>,
                            queues |-> [queues EXCEPT
                                           ![priority] = SubSeq(queue, 1, Len(queue) - 1)],
                            counter |-> sel.counter]

\* MultipathScheduler::next_packet, from the i-th priority on.
RECURSIVE NextPacketFrom(_, _, _, _, _, _)
NextPacketFrom(i, priorities, paths, order, queues, counter) ==
    IF i > Len(priorities)
    THEN [out |-> <<>>, queues |-> queues, counter |-> counter]
    ELSE LET priority == priorities[i]
             queue == queues[priority]
         IN  IF queue = <<>>
             THEN NextPacketFrom(i + 1, priorities, paths, order, queues, counter)
             ELSE LET sel == SelectForHead(priority, Head(queue), paths, order, counter)
                  IN  IF sel.path = None
                      THEN NextPacketFrom(i + 1, priorities, paths, order, queues, counter)
                      ELSE [out |-> <<[packet |-> Head(queue), path |-> sel.path[1]]>>,
                            queues |-> [queues EXCEPT ![priority] = Tail(queue)],
                            counter |-> sel.counter]

\* The while loop of get_multipath_batch over one priority's queue.  A head
\* for which no path is selected is met again at once (continue): the loop
\* does not end.
RECURSIVE BatchDrainQueue(_, _, _, _, _, _)
BatchDrainQueue(priority, queue, batch, max_packets, paths, order) ==
    IF ~(Len(batch) < max_packets /\ queue # <<>>)
    THEN [queue |-> queue, batch |-> batch, hung |-> FALSE]
    ELSE LET path == SelectPathForPriority(priority, Head(queue).path_preference,
                                           paths, order)
         IN  IF path = None
             THEN [queue |-> queue, batch |-> batch, hung |-> TRUE]
             ELSE BatchDrainQueue(priority, Tail(queue),
                                  Append(batch, [packet |-> Head(queue), path |-> path[1]]),
                                  max_packets, paths, order)

\* The for loop of get_multipath_batch over the priorities.
RECURSIVE BatchFrom(_, _, _, _, _, _, _)
BatchFrom(i, priorities, queues, batch, max_packets, paths, order) ==
    IF i > Len(priorities)
    THEN [queues |-> queues, batch |-> batch, hung |-> FALSE]
    ELSE LET priority == priorities[i]
             r == BatchDrainQueue(priority, queues[priority], batch, max_packets,
                                  paths, order)
             drained == [queues EXCEPT ![priority] = r.queue]
         IN  IF r.hung \/ Len(r.batch) >= max_packets
             THEN [queues |-> drained, batch |-> r.batch, hung |-> r.hung]
             ELSE BatchFrom(i + 1, priorities, drained, r.batch, max_packets, paths, order)

\* MultipathScheduler::get_multipath_batch
BatchResult(max_packets, paths, order, queues) ==
    IF DOMAIN paths = {}
    THEN [queues |-> queues, batch |-> <<>>, hung |-> FALSE]
    ELSE BatchFrom(1, PriorityOrder, queues, <<>>, max_packets, paths, order)

MaxSched == 2
MaxBatch == 2

Orderings(S) ==
    {f \in [1..Cardinality(S) -> S] : \A a, b \in 1..Cardinality(S) : a # b => f[a] # f[b]}

\* MultipathScheduler::new
SchedInit ==
    /\ schedPaths = <<>>
    /\ schedOrder = <<>>
    /\ schedQueues = [priority \in Priorities |-> <<>>]
    /\ medium_rr_counter = 0
    /\ schedScheduled = 0
    /\ schedOut = <<>>
    /\ schedHung = FALSE

\* MultipathScheduler::update_path_stats.  A new key may change the order in
\* which the HashMap is iterated; replacing a value does not.
UpdatePathStats(path, stats) ==
    /\ ~schedHung
    /\ schedPaths' = MapInsert(schedPaths, path, stats)
    /\ IF path \in DOMAIN schedPaths
       THEN schedOrder' = schedOrder
       ELSE schedOrder' \in Orderings(DOMAIN schedPaths \cup {path})
    /\ UNCHANGED <<schedQueues, medium_rr_counter, schedScheduled, schedOut, schedHung>>

\* MultipathScheduler::schedule
Schedule(priority, path_preference) ==
    /\ ~schedHung
    /\ schedScheduled < MaxSched
    /\ schedQueues' = [schedQueues EXCEPT ![priority] =
            Append(@, [priority |-> priority, stream_id |-> 1,
                       sequence |-> schedScheduled,
                       path_preference |-> path_preference])]
    /\ schedScheduled' = schedScheduled + 1
    /\ UNCHANGED <<schedPaths, schedOrder, medium_rr_counter, schedOut, schedHung>>

\* MultipathScheduler::next_packet
NextPacket ==
    /\ ~schedHung
    /\ LET r == NextPacketFrom(1, PriorityOrder, schedPaths, schedOrder,
                               schedQueues, medium_rr_counter)
       IN  /\ schedOut' = r.out
           /\ schedQueues' = r.queues
           /\ medium_rr_counter' = r.counter
    /\ UNCHANGED <<schedPaths, schedOrder, schedScheduled, schedHung>>

\* MultipathScheduler::get_multipath_batch.  A call whose loop does not end
\* returns nothing and keeps the locks on paths and queues.
GetMultipathBatch(max_packets) ==
    /\ ~schedHung
    /\ LET r == BatchResult(max_packets, schedPaths, schedOrder, schedQueues)
       IN  /\ schedQueues' = r.queues
           /\ schedHung' = r.hung
           /\ schedOut' = IF r.hung THEN schedOut ELSE r.batch
    /\ UNCHANGED <<schedPaths, schedOrder, medium_rr_counter, schedScheduled>>

(***************************************************************************)
(* handover_enhanced.rs                                                    *)
(***************************************************************************)

\* The paths, handover reasons and sequence numbers the coordinator is
\* examined with.
HoPaths == {"WiFi", "FiveG"}
HoReasons == {"RttSpike", "Manual"}
HoSequences == {0, 1}
MaxInFlight == 2
MaxEvents == 2

\* in_flight.get(&path), an absent key read as no packets.
PacketsOn(in_flight, path) ==
    IF path \in DOMAIN in_flight THEN in_flight[path] ELSE <<>>

\* The packets of a Vec whose priority is (keep = TRUE) or is not in a set.
RECURSIVE SelectPackets(_, _, _)
SelectPackets(packets, priorities, keep) ==
    IF packets = <<>> THEN <<>>
    ELSE IF (Head(packets).priority \in priorities) = keep
    THEN <<Head(packets)>> \o SelectPackets(Tail(packets), priorities, keep)
    ELSE SelectPackets(Tail(packets), priorities, keep)

\* moved_packet.path = to, for every packet of a Vec.
Retag(packets, to) == [i \in DOMAIN packets |-> [packets[i] EXCEPT !.path = to]]

\* to_packets.extend(packets_to_move) on in_flight.entry(to).or_insert_with(Vec::new)
ExtendOn(in_flight, to, packets_to_move) ==
    MapInsert(in_flight, to, PacketsOn(in_flight, to) \o packets_to_move)

\* The body shared by move_priority_streams and move_bulk_streams: drain the
\* packets on `from`, leave there those whose priority is not moved, and
\* append the others, re-tagged, to the packets on `to`.
MoveStreams(in_flight, from, to, priorities) ==
    IF from \notin DOMAIN in_flight
    THEN [in_flight |-> in_flight, moved_count |-> 0]
    ELSE LET packets_to_move == Retag(SelectPackets(in_flight[from], priorities, TRUE), to)
             remaining == SelectPackets(in_flight[from], priorities, FALSE)
             drained == [in_flight EXCEPT ![from] = remaining]
         IN  [in_flight |-> IF packets_to_move = <<>> THEN drained
                            ELSE ExtendOn(drained, to, packets_to_move),
              moved_count |-> Len(packets_to_move)]

\* EnhancedHandoverManager::move_priority_streams
MovePriorityStreams(in_flight, from, to) ==
    MoveStreams(in_flight, from, to, {"Critical", "High"})

\* move_bulk_streams that takes the bulk packets off `from` and files them
\* nowhere.
MoveBulkStreamsDropping(in_flight, from, to) ==
    IF from \notin DOMAIN in_flight
    THEN [in_flight |-> in_flight, moved_count |-> 0]
    ELSE [in_flight |-> [in_flight EXCEPT ![from] = SelectPackets(@, {"Bulk"}, FALSE)],
          moved_count |-> Len(SelectPackets(in_flight[from], {"Bulk"}, TRUE))]

\* EnhancedHandoverManager::move_bulk_streams
MoveBulkStreams(in_flight, from, to) ==
    MoveStreams(in_flight, from, to, {"Bulk"})

\* PathHistory::new: the samples and the baseline.
PathHistoryNew == [rtt_samples |-> <<>>, loss_samples |-> <<>>, baseline_rtt |-> 0]

\* should_handover has not been called since the metrics changed.
NotCalled == [called |-> FALSE, returned |-> None]
Returned(value) == [called |-> TRUE, returned |-> value]

\* EnhancedHandoverManager::new(initial_path, strategy)
HoInit ==
    /\ hoCurrent = "WiFi"
    /\ hoPaths = [path \in {"WiFi"} |-> [last_handover |-> None]]
    /\ hoInFlight = <<>>
    /\ hoEvents = <<>>
    /\ hoHistory = [path \in {"WiFi"} |-> PathHistoryNew]
    /\ hoNow = 0
    /\ hoDecision = NotCalled

RECURSIVE TotalLen(_, _)
TotalLen(in_flight, paths) ==
    IF paths = {} THEN 0
    ELSE LET path == CHOOSE x \in paths : TRUE
         IN  Len(PacketsOn(in_flight, path)) + TotalLen(in_flight, paths \ {path})

\* EnhancedHandoverManager::update_path_metrics: the entry it creates for a
\* path it has not seen (the rtt and loss samples are not part of this model).
HoUpdatePathMetrics(path) ==
    /\ path \notin DOMAIN hoPaths
    /\ hoPaths' = MapInsert(hoPaths, path, [last_handover |-> None])
    /\ UNCHANGED <<hoCurrent, hoInFlight, hoEvents, hoHistory, hoNow, hoDecision>>

\* EnhancedHandoverManager::track_packet
TrackPacket(path, stream_id, sequence, priority) ==
    /\ TotalLen(hoInFlight, HoPaths) < MaxInFlight
    /\ hoInFlight' = ExtendOn(hoInFlight, path,
                              <<[stream_id |-> stream_id, sequence |-> sequence,
                                 priority |-> priority, path |-> path]>>)
    /\ UNCHANGED <<hoCurrent, hoPaths, hoEvents, hoHistory, hoNow, hoDecision>>

\* packets.retain(|p| !(p.stream_id == stream_id && p.sequence == sequence))
RECURSIVE RetainOthers(_, _, _)
RetainOthers(packets, stream_id, sequence) ==
    IF packets = <<>> THEN <<>>
    ELSE IF Head(packets).stream_id = stream_id /\ Head(packets).sequence = sequence
    THEN RetainOthers(Tail(packets), stream_id, sequence)
    ELSE <<Head(packets)>> \o RetainOthers(Tail(packets), stream_id, sequence)

\* EnhancedHandoverManager::mark_received
HoMarkReceived(path, stream_id, sequence) ==
    /\ path \in DOMAIN hoInFlight
    /\ hoInFlight' = [hoInFlight EXCEPT ![path] = RetainOthers(@, stream_id, sequence)]
    /\ UNCHANGED <<hoCurrent, hoPaths, hoEvents, hoHistory, hoNow, hoDecision>>

\* EnhancedHandoverManager::perform_handover.  The event and last_handover
\* carry the instant of the call.
Handover(to_path, reason) ==
    /\ Len(hoEvents) < MaxEvents
    /\ LET from_path == hoCurrent
           priority_streams == MovePriorityStreams(hoInFlight, from_path, to_path)
           bulk_streams == MoveBulkStreams(priority_streams.in_flight, from_path, to_path)
       IN  /\ hoInFlight' = bulk_streams.in_flight
           /\ hoCurrent' = to_path
           /\ hoEvents' = Append(hoEvents,
                  [timestamp |-> hoNow,
                   from_path |-> from_path, to_path |-> to_path, reason |-> reason,
                   priority_streams_moved |-> priority_streams.moved_count,
                   bulk_streams_moved |-> bulk_streams.moved_count])
           /\ hoPaths' = IF to_path \in DOMAIN hoPaths
                         THEN [hoPaths EXCEPT ![to_path].last_handover = Some(hoNow)]
                         ELSE hoPaths

\* perform_handover called by itself.
PerformHandover(to_path, reason) ==
    Handover(to_path, reason) /\ UNCHANGED <<hoHistory, hoNow, hoDecision>>

\* Time that passes between two calls of the manager.
ClockStepMs == 1000
MaxClockMs == 6000
HoElapse ==
    /\ hoNow < MaxClockMs
    /\ hoNow' = hoNow + ClockStepMs
    /\ UNCHANGED <<hoPaths, hoCurrent, hoInFlight, hoEvents, hoHistory, hoDecision>>

\* The thresholds of the monitor.  Round-trip times are whole milliseconds and
\* loss rates whole per cent; the f32 comparisons are made on the fractions
\* themselves, and the inputs stay clear of the thresholds.
MONITORING_WINDOW_MS == 200
RTT_SPIKE_THRESHOLD == [num |-> 4, den |-> 10]
LOSS_THRESHOLD == 7
PATH_DOWN_MS == 5000

\* samples.retain(|(t, _)| *t > cutoff), with cutoff = now - window
RECURSIVE RetainRecent(_, _)
RetainRecent(samples, now) ==
    IF samples = <<>> THEN <<>>
    ELSE IF Head(samples).t > now - MONITORING_WINDOW_MS
    THEN <<Head(samples)>> \o RetainRecent(Tail(samples), now)
    ELSE RetainRecent(Tail(samples), now)

\* sorted.sort_by(|a, b| a.partial_cmp(b).unwrap())
RECURSIVE InsertSorted(_, _)
InsertSorted(sorted, x) ==
    IF sorted = <<>> THEN <<x>>
    ELSE IF x <= Head(sorted) THEN <<x>> \o sorted
    ELSE <<Head(sorted)>> \o InsertSorted(Tail(sorted), x)

RECURSIVE SortValues(_)
SortValues(samples) ==
    IF samples = <<>> THEN <<>>
    ELSE InsertSorted(SortValues(Tail(samples)), Head(samples).value)

\* PathHistory::add_rtt
AddRtt(history, now, rtt) ==
    LET rtt_samples == RetainRecent(Append(history.rtt_samples, [t |-> now, value |-> rtt]), now)
        sorted == SortValues(rtt_samples)
    IN  [history EXCEPT
            !.rtt_samples = rtt_samples,
            !.baseline_rtt = IF Len(rtt_samples) > 10 THEN sorted[(Len(sorted) \div 2) + 1]
                             ELSE IF history.baseline_rtt = 0 THEN rtt
                             ELSE history.baseline_rtt]

\* PathHistory::add_loss
AddLoss(history, now, loss) ==
    [history EXCEPT
        !.loss_samples = RetainRecent(Append(history.loss_samples, [t |-> now, value |-> loss]), now)]

RECURSIVE SumValues(_)
SumValues(samples) ==
    IF samples = <<>> THEN 0 ELSE Head(samples).value + SumValues(Tail(samples))

\* PathHistory::avg_loss, as the fraction sum / count (0 / 1 with no sample).
AvgLoss(history) ==
    IF history.loss_samples = <<>> THEN [num |-> 0, den |-> 1]
    ELSE [num |-> SumValues(history.loss_samples), den |-> Len(history.loss_samples)]

\* PathHistory::has_rtt_spike: (current - baseline) / baseline > 0.4
HasRttSpike(history, current_rtt) ==
    /\ history.baseline_rtt # 0
    /\ (current_rtt - history.baseline_rtt) * RTT_SPIKE_THRESHOLD.den >
           RTT_SPIKE_THRESHOLD.num * history.baseline_rtt

\* A fraction in lowest terms: the same number, kept within the integers
\* that can be multiplied.
RECURSIVE Gcd(_, _)
Gcd(a, b) == IF b = 0 THEN a ELSE Gcd(b, a % b)
Lowest(f) ==
    LET g == Gcd(IF f.num < 0 THEN -f.num ELSE f.num, f.den)
    IN  [num |-> f.num \div g, den |-> f.den \div g]

\* a > b for two fractions of positive denominators.
Greater(a, b) == a.num * b.den > b.num * a.den

\* The score find_better_path gives a path: rtt_score * 0.7 + loss_score * 0.3,
\* with the loss rates as fractions of one.
PathScore(current_history, history) ==
    LET current_rtt == current_history.baseline_rtt
        current_loss == AvgLoss(current_history)
        loss == AvgLoss(history)
        loss_gain == current_loss.num * loss.den - loss.num * current_loss.den
        loss_score == Lowest([num |-> IF loss_gain > 0 THEN loss_gain ELSE 0,
                              den |-> 100 * current_loss.den * loss.den])
        rtt_score == IF current_rtt > 0
                     THEN [num |-> current_rtt - history.baseline_rtt, den |-> current_rtt]
                     ELSE [num |-> 0, den |-> 1]
    IN  Lowest([num |-> 7 * rtt_score.num * loss_score.den + 3 * loss_score.num * rtt_score.den,
                den |-> 10 * rtt_score.den * loss_score.den])

\* EnhancedHandoverManager::find_better_path: the paths it may return, one of
\* the best among those that score above 0.1 (the map is walked in no order
\* that the code fixes), or None.
FindBetterPath(current, paths) ==
    IF current \notin DOMAIN paths THEN {None}
    ELSE LET candidates == {path \in DOMAIN paths \ {current} :
                                Greater(PathScore(paths[current], paths[path]),
                                        [num |-> 1, den |-> 10])}
             best == {path \in candidates :
                         \A other \in candidates :
                             ~Greater(PathScore(paths[current], paths[other]),
                                      PathScore(paths[current], paths[path]))}
         IN  IF candidates = {} THEN {None} ELSE {Some(path) : path \in best}

\* The checks of should_handover, in their order, for one answer of
\* find_better_path.
Checks(history, now, better_path) ==
    LET avg_loss == AvgLoss(history)
        last == history.rtt_samples[Len(history.rtt_samples)]
    IN  IF better_path = None THEN None
        ELSE IF history.rtt_samples # <<>> /\ HasRttSpike(history, last.value)
        THEN Some(<<better_path[1], "RttSpike">>)
        ELSE IF avg_loss.num > LOSS_THRESHOLD * avg_loss.den
        THEN Some(<<better_path[1], "HighLoss">>)
        ELSE IF history.rtt_samples = <<>> \/ now - last.t > PATH_DOWN_MS
        THEN Some(<<better_path[1], "PathDown">>)
        ELSE None

\* EnhancedHandoverManager::should_handover: the values it may return.
ShouldHandover(path, current, paths, now) ==
    IF path # current \/ current \notin DOMAIN paths THEN {None}
    ELSE {Checks(paths[current], now, better_path) :
              better_path \in FindBetterPath(current, paths)}

\* paths.entry(path).or_insert_with(PathHistory::new)
PathHistoryOf(paths, path) ==
    IF path \in DOMAIN paths THEN paths[path] ELSE PathHistoryNew

\* The metrics the monitor is fed: the time between two calls, what the
\* current path and what the other path report, and how many reports.
SampleIntervalMs == 10
MaxSamples == 11
MaxOtherSamples == 1
HoMetrics(path) ==
    IF path = "WiFi"
    THEN {[rtt_ms |-> 30, loss_rate |-> 0], [rtt_ms |-> 100, loss_rate |-> 0]}
    ELSE {[rtt_ms |-> 30, loss_rate |-> 0], [rtt_ms |-> 10, loss_rate |-> 0]}

\* EnhancedHandoverManager::update_path_metrics
UpdatePathMetrics(path, metrics) ==
    /\ Len(PathHistoryOf(hoHistory, path).loss_samples) <
           (IF path = "WiFi" THEN MaxSamples ELSE MaxOtherSamples)
    /\ hoHistory' = MapInsert(hoHistory, path,
                              AddLoss(AddRtt(PathHistoryOf(hoHistory, path), hoNow, metrics.rtt_ms),
                                      hoNow, metrics.loss_rate))
    /\ hoPaths' = IF path \in DOMAIN hoPaths THEN hoPaths
                  ELSE MapInsert(hoPaths, path, [last_handover |-> None])
    /\ hoNow' = hoNow + SampleIntervalMs
    /\ hoDecision' = NotCalled
    /\ UNCHANGED <<hoCurrent, hoInFlight, hoEvents>>

\* should_handover(path), and perform_handover with what it returned.
MonitorPath(path) ==
    /\ hoDecision = NotCalled
    /\ \E decision \in ShouldHandover(path, hoCurrent, hoHistory, hoNow) :
          /\ hoDecision' = Returned(decision)
          /\ IF decision = None
             THEN UNCHANGED <<hoCurrent, hoInFlight, hoEvents, hoPaths>>
             ELSE Handover(decision[1][1], decision[1][2])
    /\ UNCHANGED <<hoHistory, hoNow>>

(***************************************************************************)
(* fallback.rs                                                             *)
(***************************************************************************)

\* enum SystemState, in declaration order.
SystemStates ==
    <<"FullExperimental", "QuicWithFec", "QuicBasic", "TcpFallback", "MinimalFallback">>
States == {SystemStates[i] : i \in DOMAIN SystemStates}

\* enum FallbackStrategy and enum FallbackReason.
Strategies == {"None", "Automatic", "Conservative", "Aggressive"}
Reasons == {"ConnectionFailure", "FecFailure", "MultipathFailure", "HandoverFailure",
            "Timeout", "ErrorRateTooHigh", "Manual"}

\* cooldown_period: Duration::from_secs(60)
COOLDOWN_SECS == 60

\* The callers of the manager, the instants (seconds) the clock is read at,
\* and the caps on the history and on the failure counters.
Threads == {1, 2}
ClockInstants == {0, 59, 60}
MaxHistory == 2
MaxFailures == 2

\* FallbackManager::get_next_available_state
GetNextAvailableState(current) ==
    CASE current = "FullExperimental" -> "QuicWithFec"
      [] current = "QuicWithFec" -> "QuicBasic"
      [] current = "QuicBasic" -> "TcpFallback"
      [] current = "TcpFallback" -> "MinimalFallback"
      [] current = "MinimalFallback" -> "MinimalFallback"

\* determine_next_state with a default arm that restarts from the richest
\* state instead of keeping the current one.
DetermineNextStateRestart(current, reason) ==
    IF reason \in {"ConnectionFailure", "Manual"} THEN GetNextAvailableState(current)
    ELSE "FullExperimental"

\* determine_next_state that takes one step down the order for every reason.
DetermineNextStateOneStep(current, reason) == GetNextAvailableState(current)

\* FallbackManager::determine_next_state
DetermineNextState(current, reason) ==
    CASE current = "FullExperimental" /\ reason = "MultipathFailure" -> "QuicWithFec"
      [] current = "FullExperimental" /\ reason = "FecFailure" -> "QuicBasic"
      [] current = "FullExperimental" /\ reason = "ConnectionFailure" -> "QuicBasic"
      [] current = "FullExperimental" /\ reason = "HandoverFailure" -> "QuicWithFec"
      [] current = "QuicWithFec" /\ reason = "FecFailure" -> "QuicBasic"
      [] current = "QuicWithFec" /\ reason = "ConnectionFailure" -> "TcpFallback"
      [] current = "QuicBasic" /\ reason = "ConnectionFailure" -> "TcpFallback"
      [] current = "TcpFallback" /\ reason = "ConnectionFailure" -> "MinimalFallback"
      [] reason = "Manual" -> GetNextAvailableState(current)
      [] OTHER -> current

\* FallbackManager::get_config_for_state
GetConfigForState(state) ==
    CASE state = "FullExperimental" ->
             [enable_quic |-> TRUE, enable_fec |-> TRUE, enable_multipath |-> TRUE,
              enable_handover |-> TRUE, enable_compression |-> TRUE,
              enable_encryption |-> TRUE, use_tcp_fallback |-> FALSE]
      [] state = "QuicWithFec" ->
             [enable_quic |-> TRUE, enable_fec |-> TRUE, enable_multipath |-> FALSE,
              enable_handover |-> FALSE, enable_compression |-> TRUE,
              enable_encryption |-> TRUE, use_tcp_fallback |-> FALSE]
      [] state = "QuicBasic" ->
             [enable_quic |-> TRUE, enable_fec |-> FALSE, enable_multipath |-> FALSE,
              enable_handover |-> FALSE, enable_compression |-> TRUE,
              enable_encryption |-> TRUE, use_tcp_fallback |-> FALSE]
      [] state = "TcpFallback" ->
             [enable_quic |-> FALSE, enable_fec |-> FALSE, enable_multipath |-> FALSE,
              enable_handover |-> FALSE, enable_compression |-> TRUE,
              enable_encryption |-> TRUE, use_tcp_fallback |-> TRUE]
      [] state = "MinimalFallback" ->
             [enable_quic |-> FALSE, enable_fec |-> FALSE, enable_multipath |-> FALSE,
              enable_handover |-> FALSE, enable_compression |-> FALSE,
              enable_encryption |-> TRUE, use_tcp_fallback |-> TRUE]

\* The match at the head of try_recover: the state one step richer, None
\* for FullExperimental.
Upgraded(current) ==
    CASE current = "MinimalFallback" -> Some("TcpFallback")
      [] current = "TcpFallback" -> Some("QuicBasic")
      [] current = "QuicBasic" -> Some("QuicWithFec")
      [] current = "QuicWithFec" -> Some("FullExperimental")
      [] current = "FullExperimental" -> None

\* should_fallback in report_failure; failures is failure_count as it is
\* when the match reads it.
ShouldFallback(strategy, reason, current, failures) ==
    CASE strategy = "Automatic" -> TRUE
      [] strategy = "Conservative" -> reason \in {"ConnectionFailure", "ErrorRateTooHigh"}
      [] strategy = "Aggressive" ->
             (IF current \in DOMAIN failures THEN failures[current] ELSE 0) >= 2
      [] strategy = "None" -> FALSE

\* try_recover without its cooldown test.
InCooldownNever(last_failure, now) == FALSE

\* The cooldown test of try_recover: last.elapsed() < self.cooldown_period
InCooldown(last_failure, now) ==
    last_failure # None /\ now - last_failure[1] < COOLDOWN_SECS

\* HashMap::get(key).copied()
MapGet(m, key) == IF key \in DOMAIN m THEN Some(m[key]) ELSE None

\* HashMap::remove(key)
MapRemove(m, key) == [x \in DOMAIN m \ {key} |-> m[x]]

\* A caller that is not inside a call.
Idle ==
    [pc |-> "idle", op |-> "none", strategy |-> "None", reason |-> "Manual",
     from |-> "FullExperimental", to |-> "FullExperimental"]

\* A caller inside a call, about to run the statement pc.
Running(pc, op, strategy, reason, from, to) ==
    [pc |-> pc, op |-> op, strategy |-> strategy, reason |-> reason,
     from |-> from, to |-> to]

\* FallbackManager::new(strategy)
FbInit ==
    /\ fbState = "FullExperimental"
    /\ fbStrategy \in Strategies
    /\ fbHistory = <<>>
    /\ fbFailureCount = <<>>
    /\ fbLastFailure = <<>>
    /\ fbNow = 0
    /\ fbCall = [t \in Threads |-> Idle]
    /\ fbReturned = <<"none", None>>

\* The manager as dashboard/src/server.rs constructs it.
FbIdle == FbInit /\ fbStrategy = "Automatic"

InCall == {t \in Threads : fbCall[t].pc # "idle"}

\* A call may start while the history has room for the event of every call
\* in progress and of this one.
MayStart(t) ==
    /\ fbCall[t].pc = "idle"
    /\ Len(fbHistory) + Cardinality(InCall) < MaxHistory

\* Instant::now() advances.
Tick(instant) ==
    /\ instant \in ClockInstants
    /\ instant > fbNow
    /\ fbNow' = instant
    /\ UNCHANGED <<fbState, fbStrategy, fbHistory, fbFailureCount, fbLastFailure, fbCall, fbReturned>>

\* FallbackManager::set_strategy
SetStrategy(strategy) ==
    /\ fbStrategy' = strategy
    /\ strategy # fbStrategy
    /\ UNCHANGED <<fbState, fbHistory, fbFailureCount, fbLastFailure, fbNow, fbCall, fbReturned>>

\* report_failure: let strategy = self.strategy(); the early return on None.
ReportFailureReadStrategy(t, reason) ==
    /\ MayStart(t)
    /\ \A state \in DOMAIN fbFailureCount :
           fbFailureCount[state]
               + Cardinality({u \in InCall : fbCall[u].op = "report_failure"}) < MaxFailures
    /\ fbCall' = [fbCall EXCEPT ![t] =
           IF fbStrategy = "None" THEN Idle
           ELSE Running("read_current", "report_failure", fbStrategy, reason,
                        "FullExperimental", "FullExperimental")]
    /\ fbReturned' = IF fbStrategy = "None" THEN <<"report_failure", None>> ELSE fbReturned
    /\ UNCHANGED <<fbState, fbStrategy, fbHistory, fbFailureCount, fbLastFailure, fbNow>>

\* report_failure: let current = self.current_state();
ReportFailureReadCurrent(t) ==
    /\ fbCall[t].pc = "read_current"
    /\ fbCall' = [fbCall EXCEPT ![t].pc = "count_failure", ![t].from = fbState]
    /\ UNCHANGED <<fbState, fbStrategy, fbHistory, fbFailureCount, fbLastFailure, fbNow,
                   fbReturned>>

\* report_failure: *failures.entry(current).or_insert(0) += 1;
ReportFailureCount(t) ==
    /\ fbCall[t].pc = "count_failure"
    /\ LET current == fbCall[t].from
       IN  fbFailureCount' = MapInsert(fbFailureCount, current,
               (IF current \in DOMAIN fbFailureCount THEN fbFailureCount[current] ELSE 0) + 1)
    /\ fbCall' = [fbCall EXCEPT ![t].pc = "record_time"]
    /\ UNCHANGED <<fbState, fbStrategy, fbHistory, fbLastFailure, fbNow, fbReturned>>

\* report_failure: failure_times.insert(current, Instant::now());
ReportFailureRecordTime(t) ==
    /\ fbCall[t].pc = "record_time"
    /\ fbLastFailure' = MapInsert(fbLastFailure, fbCall[t].from, fbNow)
    /\ fbCall' = [fbCall EXCEPT ![t].pc = "decide"]
    /\ UNCHANGED <<fbState, fbStrategy, fbHistory, fbFailureCount, fbNow, fbReturned>>

\* report_failure: should_fallback, determine_next_state and the test
\* next_state != current; the call either goes on to perform_fallback or
\* returns Ok(None).
ReportFailureDecide(t) ==
    /\ fbCall[t].pc = "decide"
    /\ LET call == fbCall[t]
           next_state == DetermineNextState(call.from, call.reason)
           falls_back ==
               /\ ShouldFallback(call.strategy, call.reason, call.from, fbFailureCount)
               /\ next_state # call.from
       IN  /\ fbCall' = [fbCall EXCEPT ![t] =
                   IF falls_back THEN [call EXCEPT !.pc = "push_event", !.to = next_state]
                   ELSE Idle]
           /\ fbReturned' = IF falls_back THEN fbReturned ELSE <<"report_failure", None>>
    /\ UNCHANGED <<fbState, fbStrategy, fbHistory, fbFailureCount, fbLastFailure, fbNow>>

\* manual_fallback up to its call of perform_fallback.
ManualFallbackReadCurrent(t, target_state) ==
    /\ MayStart(t)
    /\ LET current == fbState
           target == IF target_state = None THEN GetNextAvailableState(current)
                     ELSE target_state[1]
       IN  /\ fbCall' = [fbCall EXCEPT ![t] =
                   IF target # current
                   THEN Running("push_event", "manual_fallback", "None", "Manual",
                                current, target)
                   ELSE Idle]
           /\ fbReturned' = IF target # current THEN fbReturned
                           ELSE <<"manual_fallback", Some(target)>>
    /\ UNCHANGED <<fbState, fbStrategy, fbHistory, fbFailureCount, fbLastFailure, fbNow>>

\* try_recover: let current = self.current_state(); and the match on it.
TryRecoverReadCurrent(t) ==
    /\ MayStart(t)
    /\ LET current == fbState
       IN  /\ fbCall' = [fbCall EXCEPT ![t] =
                   IF Upgraded(current) = None THEN Idle
                   ELSE Running("check_cooldown", "try_recover", "None", "Manual",
                                current, Upgraded(current)[1])]
           /\ fbReturned' = IF Upgraded(current) = None THEN <<"try_recover", None>>
                           ELSE fbReturned
    /\ UNCHANGED <<fbState, fbStrategy, fbHistory, fbFailureCount, fbLastFailure, fbNow>>

\* try_recover: the read of last_failure_time and the cooldown test.
TryRecoverCheckCooldown(t) ==
    /\ fbCall[t].pc = "check_cooldown"
    /\ LET in_cooldown == InCooldown(MapGet(fbLastFailure, fbCall[t].to), fbNow)
       IN  /\ fbCall' = [fbCall EXCEPT ![t] =
                   IF in_cooldown THEN Idle ELSE [fbCall[t] EXCEPT !.pc = "push_event"]]
           /\ fbReturned' = IF in_cooldown THEN <<"try_recover", None>> ELSE fbReturned
    /\ UNCHANGED <<fbState, fbStrategy, fbHistory, fbFailureCount, fbLastFailure, fbNow>>

\* perform_fallback: self.fallback_history.write().push(event);
PerformFallbackPushEvent(t) ==
    /\ fbCall[t].pc = "push_event"
    /\ fbHistory' = Append(fbHistory, [from_state |-> fbCall[t].from,
                                       to_state |-> fbCall[t].to,
                                       reason |-> fbCall[t].reason])
    /\ fbCall' = [fbCall EXCEPT ![t].pc = "write_state"]
    /\ UNCHANGED <<fbState, fbStrategy, fbFailureCount, fbLastFailure, fbNow, fbReturned>>

\* perform_fallback: *self.current_state.write() = to;
PerformFallbackWriteState(t) ==
    /\ fbCall[t].pc = "write_state"
    /\ fbState' = fbCall[t].to
    /\ fbCall' = [fbCall EXCEPT ![t].pc = "reset_count"]
    /\ UNCHANGED <<fbStrategy, fbHistory, fbFailureCount, fbLastFailure, fbNow, fbReturned>>

\* perform_fallback: self.failure_count.write().remove(&from); and the
\* caller's return of the new state.
PerformFallbackResetCount(t) ==
    /\ fbCall[t].pc = "reset_count"
    /\ fbFailureCount' = MapRemove(fbFailureCount, fbCall[t].from)
    /\ fbCall' = [fbCall EXCEPT ![t] = Idle]
    /\ fbReturned' = <<fbCall[t].op, Some(fbCall[t].to)>>
    /\ UNCHANGED <<fbState, fbStrategy, fbHistory, fbLastFailure, fbNow>>

\* One statement of one caller.
FbStep(t) ==
    \/ \E reason \in Reasons : ReportFailureReadStrategy(t, reason)
    \/ ReportFailureReadCurrent(t)
    \/ ReportFailureCount(t)
    \/ ReportFailureRecordTime(t)
    \/ ReportFailureDecide(t)
    \/ \E target_state \in {None} \cup {Some(state) : state \in States} :
           ManualFallbackReadCurrent(t, target_state)
    \/ TryRecoverReadCurrent(t)
    \/ TryRecoverCheckCooldown(t)
    \/ PerformFallbackPushEvent(t)
    \/ PerformFallbackWriteState(t)
    \/ PerformFallbackResetCount(t)

(***************************************************************************)
(* fec.rs, fec_enhanced.rs and the reed_solomon_erasure crate they call    *)
(***************************************************************************)

\* FecConfig::default, for_telemetry, for_file_transfer, for_patchy_network
\* (max_shard_size is read by neither the encoder nor the decoder).
FecPresets ==
    {[data_shards |-> 4, parity_shards |-> 2], [data_shards |-> 8, parity_shards |-> 3],
     [data_shards |-> 16, parity_shards |-> 4], [data_shards |-> 4, parity_shards |-> 4]}

\* The payloads the codec is examined with: the empty one, and one of
\* varying bytes whose length is not a multiple of the number of data shards
\* (with 8 and 16 data shards the last ones are padding only).
FecPayloads == {<<>>, [i \in 1..17 |-> (i * 37 + 11) % 256]}

\* A function on 1..n as the tuple of its values.
Tuple(f) == f \o <<>>

\* The exclusive or of two numbers below 16: entry [a + 1][b + 1].
XOR_TABLE ==
    <<
      <<0, 1, 2, 3, 4, 5, 6, 7, 8, 9, 10, 11, 12, 13, 14, 15>>,
      <<1, 0, 3, 2, 5, 4, 7, 6, 9, 8, 11, 10, 13, 12, 15, 14>>,
      <<2, 3, 0, 1, 6, 7, 4, 5, 10, 11, 8, 9, 14, 15, 12, 13>>,
      <<3, 2, 1, 0, 7, 6, 5, 4, 11, 10, 9, 8, 15, 14, 13, 12>>,
      <<4, 5, 6, 7, 0, 1, 2, 3, 12, 13, 14, 15, 8, 9, 10, 11>>,
      <<5, 4, 7, 6, 1, 0, 3, 2, 13, 12, 15, 14, 9, 8, 11, 10>>,
      <<6, 7, 4, 5, 2, 3, 0, 1, 14, 15, 12, 13, 10, 11, 8, 9>>,
      <<7, 6, 5, 4, 3, 2, 1, 0, 15, 14, 13, 12, 11, 10, 9, 8>>,
      <<8, 9, 10, 11, 12, 13, 14, 15, 0, 1, 2, 3, 4, 5, 6, 7>>,
      <<9, 8, 11, 10, 13, 12, 15, 14, 1, 0, 3, 2, 5, 4, 7, 6>>,
      <<10, 11, 8, 9, 14, 15, 12, 13, 2, 3, 0, 1, 6, 7, 4, 5>>,
      <<11, 10, 9, 8, 15, 14, 13, 12, 3, 2, 1, 0, 7, 6, 5, 4>>,
      <<12, 13, 14, 15, 8, 9, 10, 11, 4, 5, 6, 7, 0, 1, 2, 3>>,
      <<13, 12, 15, 14, 9, 8, 11, 10, 5, 4, 7, 6, 1, 0, 3, 2>>,
      <<14, 15, 12, 13, 10, 11, 8, 9, 6, 7, 4, 5, 2, 3, 0, 1>>,
      <<15, 14, 13, 12, 11, 10, 9, 8, 7, 6, 5, 4, 3, 2, 1, 0>>
    >>

\* The exclusive or of two numbers, four bits at a time.
RECURSIVE BitXor(_, _)
BitXor(a, b) ==
    IF a = 0 THEN b
    ELSE IF b = 0 THEN a
    ELSE XOR_TABLE[(a % 16) + 1][(b % 16) + 1] + (16 * BitXor(a \div 16, b \div 16))

\* galois_8::add
GfAdd(a, b) == BitXor(a, b)

\* galois_8::EXP_TABLE and LOG_TABLE: entry [i + 1] is the generator 2 to the power i
\* modulo the polynomial x^8 + x^4 + x^3 + x^2 + 1 (285); entry [a] is the
\* logarithm of a to that base.
EXP_TABLE ==
    <<
      1, 2, 4, 8, 16, 32, 64, 128, 29, 58, 116, 232, 205, 135, 19, 38,
      76, 152, 45, 90, 180, 117, 234, 201, 143, 3, 6, 12, 24, 48, 96, 192,
      157, 39, 78, 156, 37, 74, 148, 53, 106, 212, 181, 119, 238, 193, 159, 35,
      70, 140, 5, 10, 20, 40, 80, 160, 93, 186, 105, 210, 185, 111, 222, 161,
      95, 190, 97, 194, 153, 47, 94, 188, 101, 202, 137, 15, 30, 60, 120, 240,
      253, 231, 211, 187, 107, 214, 177, 127, 254, 225, 223, 163, 91, 182, 113, 226,
      217, 175, 67, 134, 17, 34, 68, 136, 13, 26, 52, 104, 208, 189, 103, 206,
      129, 31, 62, 124, 248, 237, 199, 147, 59, 118, 236, 197, 151, 51, 102, 204,
      133, 23, 46, 92, 184, 109, 218, 169, 79, 158, 33, 66, 132, 21, 42, 84,
      168, 77, 154, 41, 82, 164, 85, 170, 73, 146, 57, 114, 228, 213, 183, 115,
      230, 209, 191, 99, 198, 145, 63, 126, 252, 229, 215, 179, 123, 246, 241, 255,
      227, 219, 171, 75, 150, 49, 98, 196, 149, 55, 110, 220, 165, 87, 174, 65,
      130, 25, 50, 100, 200, 141, 7, 14, 28, 56, 112, 224, 221, 167, 83, 166,
      81, 162, 89, 178, 121, 242, 249, 239, 195, 155, 43, 86, 172, 69, 138, 9,
      18, 36, 72, 144, 61, 122, 244, 245, 247, 243, 251, 235, 203, 139, 11, 22,
      44, 88, 176, 125, 250, 233, 207, 131, 27, 54, 108, 216, 173, 71, 142
    >>

LOG_TABLE ==
    <<
      0, 1, 25, 2, 50, 26, 198, 3, 223, 51, 238, 27, 104, 199, 75, 4,
      100, 224, 14, 52, 141, 239, 129, 28, 193, 105, 248, 200, 8, 76, 113, 5,
      138, 101, 47, 225, 36, 15, 33, 53, 147, 142, 218, 240, 18, 130, 69, 29,
      181, 194, 125, 106, 39, 249, 185, 201, 154, 9, 120, 77, 228, 114, 166, 6,
      191, 139, 98, 102, 221, 48, 253, 226, 152, 37, 179, 16, 145, 34, 136, 54,
      208, 148, 206, 143, 150, 219, 189, 241, 210, 19, 92, 131, 56, 70, 64, 30,
      66, 182, 163, 195, 72, 126, 110, 107, 58, 40, 84, 250, 133, 186, 61, 202,
      94, 155, 159, 10, 21, 121, 43, 78, 212, 229, 172, 115, 243, 167, 87, 7,
      112, 192, 247, 140, 128, 99, 13, 103, 74, 222, 237, 49, 197, 254, 24, 227,
      165, 153, 119, 38, 184, 180, 124, 17, 68, 146, 217, 35, 32, 137, 46, 55,
      63, 209, 91, 149, 188, 207, 205, 144, 135, 151, 178, 220, 252, 190, 97, 242,
      86, 211, 171, 20, 42, 93, 158, 132, 60, 57, 83, 71, 109, 65, 162, 31,
      45, 67, 216, 183, 123, 164, 118, 196, 23, 73, 236, 127, 12, 111, 246, 108,
      161, 59, 82, 41, 157, 85, 170, 251, 96, 134, 177, 187, 204, 62, 90, 203,
      89, 95, 176, 156, 169, 160, 81, 11, 245, 22, 235, 122, 117, 44, 215, 79,
      174, 213, 233, 230, 231, 173, 232, 116, 214, 244, 234, 168, 80, 88, 175
    >>

\* galois_8::mul, galois_8::div (b # 0) and galois_8::exp
GfMul(a, b) ==
    IF a = 0 \/ b = 0 THEN 0 ELSE EXP_TABLE[((LOG_TABLE[a] + LOG_TABLE[b]) % 255) + 1]
GfDiv(a, b) ==
    IF a = 0 THEN 0 ELSE EXP_TABLE[((LOG_TABLE[a] + 255 - LOG_TABLE[b]) % 255) + 1]
GfExp(a, n) ==
    IF n = 0 THEN 1
    ELSE IF a = 0 THEN 0
    ELSE EXP_TABLE[((LOG_TABLE[a] * n) % 255) + 1]

\* The sum over the field of the products of two vectors' entries.
RECURSIVE GfDot(_, _)
GfDot(row, column) ==
    IF row = <<>> THEN 0
    ELSE GfAdd(GfMul(Head(row), Head(column)), GfDot(Tail(row), Tail(column)))

\* Matrix::multiply, matrices being tuples of rows.
MatrixMultiply(A, B) ==
    Tuple([i \in DOMAIN A |->
              Tuple([j \in DOMAIN B[1] |-> GfDot(A[i], Tuple([t \in DOMAIN B |-> B[t][j]]))])])

\* Matrix::vandermonde: the entry of row r and column c is r to the power c.
Vandermonde(rows, cols) ==
    Tuple([r \in 1..rows |-> Tuple([c \in 1..cols |-> GfExp(r - 1, c - 1)])])

\* Matrix::gaussian_elim, one column: the first row at or below the diagonal
\* with a non-zero entry in column c.
PivotRow(work, c) ==
    CHOOSE r \in c..Len(work) : work[r][c] # 0 /\ \A q \in c..(r - 1) : work[q][c] = 0

\* Matrix::swap_rows
SwapRows(work, c, pivot) == [work EXCEPT ![c] = work[pivot], ![pivot] = work[c]]

\* Matrix::gaussian_elim, one column: the row of the diagonal scaled to 1 there.
ScaleRow(row, c) == Tuple([j \in DOMAIN row |-> GfDiv(row[j], row[c])])

\* Matrix::gaussian_elim, one column: the column cleared in every other row.
ClearColumn(work, scaled, c) ==
    Tuple([r \in DOMAIN work |->
        IF r = c THEN scaled
        ELSE Tuple([j \in DOMAIN scaled |->
                 GfAdd(work[r][j], GfMul(work[r][c], scaled[j]))])])

EliminateColumn(swapped, c) == ClearColumn(swapped, ScaleRow(swapped[c], c), c)

\* Matrix::gaussian_elim on a matrix augmented with the identity: column by
\* column, bring a row with a non-zero entry to the diagonal, scale it to 1
\* and clear the column in every other row.
RECURSIVE GaussianElim(_, _)
GaussianElim(work, c) ==
    IF c > Len(work) THEN work
    ELSE GaussianElim(EliminateColumn(SwapRows(work, c, PivotRow(work, c)), c), c + 1)

\* A square matrix with the identity to its right.
Augmented(M, n) ==
    Tuple([r \in 1..n |-> Tuple([j \in 1..(2 * n) |->
        IF j <= n THEN M[r][j] ELSE IF j - n = r THEN 1 ELSE 0])])

\* The right half of an augmented matrix.
RightHalf(work, n) == Tuple([r \in 1..n |-> SubSeq(work[r], n + 1, 2 * n)])

\* Matrix::invert of a square, invertible matrix.
Invert(M) == RightHalf(GaussianElim(Augmented(M, Len(M)), 1), Len(M))

\* ReedSolomon::build_matrix: the Vandermonde matrix times the inverse of
\* its top square, so that the first data_shards rows are the identity.
BuildMatrix(data_shards, total_shards) ==
    LET vandermonde == Vandermonde(total_shards, data_shards)
    IN  MatrixMultiply(vandermonde, Invert(SubSeq(vandermonde, 1, data_shards)))

\* ReedSolomon::new(data_shards, parity_shards), for every preset.
RS_MATRIX_4_2 == BuildMatrix(4, 6)
RS_MATRIX_8_3 == BuildMatrix(8, 11)
RS_MATRIX_16_4 == BuildMatrix(16, 20)
RS_MATRIX_4_4 == BuildMatrix(4, 8)
RsMatrix(config) ==
    CASE config = [data_shards |-> 4, parity_shards |-> 2] -> RS_MATRIX_4_2
      [] config = [data_shards |-> 8, parity_shards |-> 3] -> RS_MATRIX_8_3
      [] config = [data_shards |-> 16, parity_shards |-> 4] -> RS_MATRIX_16_4
      [] config = [data_shards |-> 4, parity_shards |-> 4] -> RS_MATRIX_4_4

Ok(value) == [tag |-> "Ok", value |-> value]
Err(error) == [tag |-> "Err", error |-> error]

\* ReedSolomon::encode on data_shards filled shards followed by
\* parity_shards shards to fill: the parity shards, EmptyShard for shards of
\* length zero.
RsEncode(config, data, shard_size) ==
    IF shard_size = 0 THEN Err("EmptyShard")
    ELSE Ok(Tuple([p \in 1..config.parity_shards |-> Tuple([b \in 1..shard_size |->
                GfDot(RsMatrix(config)[config.data_shards + p],
                      Tuple([c \in 1..config.data_shards |-> data[c][b]]))])]))

\* The members of a set of numbers in increasing order.
RECURSIVE Ascending(_)
Ascending(S) ==
    IF S = {} THEN <<>>
    ELSE LET least == CHOOSE x \in S : \A y \in S : x <= y
         IN  <<least>> \o Ascending(S \ {least})

\* ReedSolomon::reconstruct: the indexes of the data shards that are missing,
\* and of the first m parity shards present.
MissingData(k, present) == Ascending((0..(k - 1)) \ DOMAIN present)
UsedParity(k, present, m) == SubSeq(Ascending(DOMAIN present \ (0..(k - 1))), 1, m)

\* ReedSolomon::reconstruct: the inverse of the equations that the parity
\* shards used put on the missing data shards.
DecodeMatrix(matrix, missing, used) ==
    Invert(Tuple([i \in DOMAIN used |->
        Tuple([j \in DOMAIN missing |-> matrix[used[i] + 1][missing[j] + 1]])]))

\* Byte b of a parity shard less what the data shards present contribute to it.
Remainder(row, present, k, parity, b) ==
    GfAdd(parity[b],
          GfDot(Tuple([c \in 1..k |-> IF (c - 1) \in DOMAIN present THEN row[c] ELSE 0]),
                Tuple([c \in 1..k |-> IF (c - 1) \in DOMAIN present
                                      THEN present[c - 1][b] ELSE 0])))

\* Entry [b][i] is byte b of what the missing data shards contribute to
\* the i-th parity shard used.
Remainders(matrix, present, k, used, shard_size) ==
    Tuple([b \in 1..shard_size |-> Tuple([i \in DOMAIN used |->
        Remainder(matrix[used[i] + 1], present, k, present[used[i]], b)])])

\* ReedSolomon::reconstruct: the missing data shards.
SolveMissing(inverse, remainders, shard_size) ==
    Tuple([j \in DOMAIN inverse |-> Tuple([b \in 1..shard_size |->
        GfDot(inverse[j], remainders[b])])])

\* ReedSolomon::reconstruct: the data shards, present or solved for.
DataShards(present, k, missing, solved) ==
    Tuple([c \in 1..k |->
        IF (c - 1) \in DOMAIN present THEN present[c - 1]
        ELSE solved[CHOOSE j \in DOMAIN missing : missing[j] = c - 1]])

ReconstructData(matrix, present, k, missing, used, shard_size) ==
    DataShards(present, k, missing,
               SolveMissing(DecodeMatrix(matrix, missing, used),
                            Remainders(matrix, present, k, used, shard_size), shard_size))

\* ReedSolomon::reconstruct on the shards present (index -> bytes, indexes
\* from 0): TooFewShardsPresent with fewer than data_shards of them,
\* otherwise the data shards, the missing ones being the solution of the
\* equations of the first data_shards shards present.  The missing shards are
\* solved for with the rows of the parity shards among those, which has the
\* solution the inverse of the whole sub-matrix has.
RsReconstruct(config, present, shard_size) ==
    IF Cardinality(DOMAIN present) < config.data_shards THEN Err("TooFewShardsPresent")
    ELSE Ok(ReconstructData(RsMatrix(config), present, config.data_shards,
                MissingData(config.data_shards, present),
                UsedParity(config.data_shards, present,
                           Len(MissingData(config.data_shards, present))),
                shard_size))

\* encode_reed_solomon: (data.len() + data_shards - 1) / data_shards
ShardSize(len, data_shards) == (len + data_shards - 1) \div data_shards

\* encode_reed_solomon: data shard i of the payload, padded with zeros.
DataShard(data, i, shard_size) ==
    LET start == i * shard_size
        end == Min(start + shard_size, Len(data))
    IN  Tuple([b \in 1..shard_size |-> IF start + b <= end THEN data[start + b] ELSE 0])

\* EnhancedFecEncoder::encode_reed_solomon
EncodeReedSolomon(config, data) ==
    LET shard_size == ShardSize(Len(data), config.data_shards)
        data_shards ==
            Tuple([c \in 1..config.data_shards |-> DataShard(data, c - 1, shard_size)])
        encoded == RsEncode(config, data_shards, shard_size)
    IN  IF encoded.tag = "Err" THEN encoded
        ELSE Ok([data |-> data_shards, parity |-> encoded.value,
                 info |-> [data_shards |-> config.data_shards,
                           parity_shards |-> config.parity_shards,
                           shard_size |-> shard_size, total_size |-> Len(data)]])

\* parity[i] ^= byte for the bytes of one shard: the bytes the buffer has are
\* combined, and bytes past its end are not.
XorInto(buffer, shard) ==
    Tuple([j \in 1..Len(buffer) |->
               IF j <= Len(shard) THEN BitXor(buffer[j], shard[j]) ELSE buffer[j]])

\* The buffer after the shards at the given places were combined into it.
RECURSIVE XorAll(_, _, _)
XorAll(buffer, shards, places) ==
    IF places = <<>> THEN buffer
    ELSE XorAll(XorInto(buffer, shards[Head(places)]), shards, Tail(places))

\* A buffer of n zero bytes.
Zeros(n) == Tuple([j \in 1..n |-> 0])

\* encode_xor: one parity shard, the exclusive or of every data shard (the
\* first shard fills the empty buffer, the others are combined into it).
XorParityOmittingLast(data_shards, shard_size) ==
    XorAll(Zeros(shard_size), data_shards, Tuple([c \in 1..(Len(data_shards) - 1) |-> c]))

XorParity(data_shards, shard_size) ==
    XorAll(Zeros(shard_size), data_shards, Tuple([c \in 1..Len(data_shards) |-> c]))

\* EnhancedFecEncoder::encode_xor
EncodeXor(config, data) ==
    LET shard_size == ShardSize(Len(data), config.data_shards)
        data_shards ==
            Tuple([c \in 1..config.data_shards |-> DataShard(data, c - 1, shard_size)])
        parity == XorParity(data_shards, shard_size)
    IN  Ok([data |-> data_shards,
            parity |-> Tuple([p \in 1..config.parity_shards |-> parity]),
            info |-> [data_shards |-> config.data_shards,
                      parity_shards |-> config.parity_shards,
                      shard_size |-> shard_size, total_size |-> Len(data)]])

\* EnhancedFecEncoder::encode: match self.algorithm
Encode(algorithm, config, data) ==
    IF algorithm = "Xor" THEN EncodeXor(config, data) ELSE EncodeReedSolomon(config, data)

\* EnhancedFecDecoder::add_shard on the state of the block, None for a block
\* the decoder has not seen: the state afterwards.
AddShard(block, shard_index, shard_data, info) ==
    LET entry == IF block = None
                 THEN [info |-> info, received_shards |-> <<>>, received_count |-> 0,
                       decoded |-> None]
                 ELSE block[1]
    IN  IF shard_index \in DOMAIN entry.received_shards THEN Some(entry)
        ELSE Some([entry EXCEPT
                 !.received_shards = MapInsert(@, shard_index, shard_data),
                 !.received_count = @ + 1])

\* reconstructed.extend_from_slice, slice after slice.
RECURSIVE ExtendFromSlices(_)
ExtendFromSlices(slices) ==
    IF slices = <<>> THEN <<>> ELSE Head(slices) \o ExtendFromSlices(Tail(slices))

\* decode_reed_solomon: the bytes of data shard i that are payload.
Piece(shard, i, info) ==
    IF i * info.shard_size < info.total_size
    THEN SubSeq(shard, 1, Min(Min(i * info.shard_size + info.shard_size, info.total_size)
                                  - i * info.shard_size, Len(shard)))
    ELSE <<>>

\* decode_reed_solomon after the call of reconstruct.
Reassemble(shards, info) ==
    IF shards.tag = "Err" THEN shards
    ELSE Ok(ExtendFromSlices(Tuple([c \in 1..info.data_shards |->
                Piece(shards.value[c], c - 1, info)])))

\* decode_xor: data shard i rebuilt from every parity shard received and
\* every other data shard received.
XorRebuild(state, i) ==
    XorAll(XorAll(Zeros(state.info.shard_size), state.received_shards,
                  Ascending({idx \in DOMAIN state.received_shards :
                                 idx >= state.info.data_shards})),
           state.received_shards,
           Ascending({idx \in DOMAIN state.received_shards :
                          idx < state.info.data_shards /\ idx # i}))

\* decode_xor: the payload bytes of data shard i, received or rebuilt.
XorPiece(state, i) ==
    IF i \in DOMAIN state.received_shards
    THEN Piece(state.received_shards[i], i, state.info)
    ELSE Piece(XorRebuild(state, i), i, state.info)

\* EnhancedFecDecoder::decode_xor
DecodeXor(state) ==
    LET reconstructed == ExtendFromSlices(Tuple([c \in 1..state.info.data_shards |->
                             XorPiece(state, c - 1)]))
    IN  Ok(SubSeq(reconstructed, 1, Min(Len(reconstructed), state.info.total_size)))

\* EnhancedFecDecoder::decode_reed_solomon
DecodeReedSolomon(config, state) ==
    Reassemble(RsReconstruct(config, state.received_shards, state.info.shard_size),
               state.info)

\* decode after the call of decode_reed_solomon: the error passed on, or the
\* bytes kept with the block and returned.
KeepDecoded(block, decoded) ==
    IF decoded.tag = "Err" THEN [returned |-> decoded, block |-> block]
    ELSE [returned |-> Ok(Some(decoded.value)),
          block |-> Some([block[1] EXCEPT !.decoded = Some(decoded.value)])]

\* decode: match self.algorithm
DecodeBlock(algorithm, config, state) ==
    IF algorithm = "Xor" THEN DecodeXor(state) ELSE DecodeReedSolomon(config, state)

\* EnhancedFecDecoder::decode on the state of the block: the value returned
\* and the state afterwards.
Decode(algorithm, config, block) ==
    IF block = None THEN [returned |-> Err("Block not found"), block |-> block]
    ELSE IF block[1].decoded # None
    THEN [returned |-> Ok(block[1].decoded), block |-> block]
    ELSE IF block[1].received_count < block[1].info.data_shards
    THEN [returned |-> Ok(None), block |-> block]
    ELSE KeepDecoded(block, DecodeBlock(algorithm, config, block[1]))

\* The subsets of n members of a set of numbers.
RECURSIVE Choices(_, _)
Choices(S, n) ==
    IF n = 0 THEN {{}}
    ELSE IF S = {} THEN {}
    ELSE LET greatest == CHOOSE x \in S : \A y \in S : y <= x
         IN  Choices(S \ {greatest}, n)
                 \cup {chosen \cup {greatest} : chosen \in Choices(S \ {greatest}, n - 1)}

\* An encoder and a decoder of one preset, a payload to send, and the shards
\* of its block that are lost in transit: as many as there are parity shards.
FecInit ==
    /\ fecAlgorithm = "ReedSolomon"
    /\ fecConfig \in FecPresets
    /\ fecPayload \in FecPayloads
    /\ fecLost \in Choices(0..(fecConfig.data_shards + fecConfig.parity_shards - 1),
                            fecConfig.parity_shards)
    /\ fecEncoded = None
    /\ fecBlock = None
    /\ fecReturned = None

FecIdle ==
    /\ fecAlgorithm = "ReedSolomon"
    /\ fecConfig = [data_shards |-> 4, parity_shards |-> 2]
    /\ fecPayload = <<>>
    /\ fecLost = {}
    /\ fecEncoded = None
    /\ fecBlock = None
    /\ fecReturned = None

\* Configurations with a single parity shard, beside the presets.
XorSingleParity == {[data_shards |-> k, parity_shards |-> 1] : k \in {2, 3, 4}}

\* The losses the XOR codec is examined with: one or two data shards, and any
\* of the parity shards.
XorLosses(config) ==
    {data \cup parity :
        data \in Choices(0..(config.data_shards - 1), 1)
                    \cup Choices(0..(config.data_shards - 1), 2),
        parity \in SUBSET (config.data_shards
                               ..(config.data_shards + config.parity_shards - 1))}

\* An encoder and a decoder of the XOR algorithm.
FecXorInit ==
    /\ fecAlgorithm = "Xor"
    /\ fecConfig \in FecPresets \cup XorSingleParity
    /\ fecPayload \in FecPayloads
    /\ fecLost \in XorLosses(fecConfig)
    /\ fecEncoded = None
    /\ fecBlock = None
    /\ fecReturned = None

\* EnhancedFecEncoder::encode
FecEncode ==
    /\ fecEncoded = None
    /\ fecEncoded' = Some(Encode(fecAlgorithm, fecConfig, fecPayload))
    /\ UNCHANGED <<fecAlgorithm, fecConfig, fecPayload, fecLost, fecBlock, fecReturned>>

\* Shard i of the encoded block, data shards first.
ShardOf(encoded, i) ==
    IF i < Len(encoded.data) THEN encoded.data[i + 1]
    ELSE encoded.parity[i - Len(encoded.data) + 1]

\* The shards that arrive, the decoder not having been given them yet.
Arriving ==
    IF fecEncoded = None \/ fecEncoded[1].tag = "Err" THEN {}
    ELSE {i \in 0..(fecConfig.data_shards + fecConfig.parity_shards - 1) :
             /\ i \notin fecLost
             /\ fecBlock = None \/ i \notin DOMAIN fecBlock[1].received_shards}

\* EnhancedFecDecoder::add_shard for the next shard that arrives (the shards
\* are handed over in the order of their indexes).
FecAddShard(shard_index) ==
    /\ shard_index \in Arriving
    /\ \A i \in Arriving : shard_index <= i
    /\ fecBlock' = AddShard(fecBlock, shard_index,
                            ShardOf(fecEncoded[1].value, shard_index),
                            fecEncoded[1].value.info)
    /\ UNCHANGED <<fecAlgorithm, fecConfig, fecPayload, fecLost, fecEncoded, fecReturned>>

\* EnhancedFecDecoder::decode for the block.
FecDecode ==
    /\ fecBlock # None
    /\ LET result == Decode(fecAlgorithm, fecConfig, fecBlock)
       IN  /\ fecReturned' = Some(result.returned)
           /\ fecBlock' = result.block
    /\ fecReturned' # fecReturned \/ fecBlock' # fecBlock
    /\ UNCHANGED <<fecAlgorithm, fecConfig, fecPayload, fecLost, fecEncoded>>

\* The blocks whose shards arrive in one run, the shards of a block that
\* arrive, and the info they carry: no block becomes decodable.
MaxBlockIds == 6
DecShardIndexes == {0, 1}
DecInfo == [data_shards |-> 4, parity_shards |-> 2, shard_size |-> 1, total_size |-> 4]

\* blocks.len() > 1000, and take(100), of cleanup_old_blocks, scaled to the
\* blocks of a run.
MaxHeldBlocks == 4
RemovedAtOnce == 2

\* EnhancedFecDecoder::new
DecInit ==
    /\ decBlocks = <<>>
    /\ decLatest = 0

\* EnhancedFecDecoder::add_shard on the map of blocks, for a shard of a
\* block held or of the block the encoder numbered next.
DecoderAddShard(block_id, shard_index) ==
    /\ block_id \in DOMAIN decBlocks \cup {decLatest + 1}
    /\ block_id <= MaxBlockIds
    /\ decBlocks' = MapInsert(decBlocks, block_id,
                              AddShard(MapGet(decBlocks, block_id), shard_index,
                                       <<shard_index>>, DecInfo)[1])
    /\ decBlocks' # decBlocks
    /\ decLatest' = IF block_id > decLatest THEN block_id ELSE decLatest

\* EnhancedFecDecoder::cleanup_old_blocks: above the limit, the first keys
\* the HashMap iterates are removed, whichever they are.
CleanupOldBlocks ==
    /\ Cardinality(DOMAIN decBlocks) > MaxHeldBlocks
    /\ \E block_ids \in Choices(DOMAIN decBlocks, RemovedAtOnce) :
            decBlocks' = [id \in DOMAIN decBlocks \ block_ids |-> decBlocks[id]]
    /\ UNCHANGED decLatest

(***************************************************************************)
(* receiver.rs: receive_packet and the packets it is given                  *)
(***************************************************************************)

\* stream.last_update = Instant::now(): the stream becomes the one updated
\* last.
RECURSIVE Touch(_, _)
Touch(updated, stream_id) ==
    IF updated = <<>> THEN <<stream_id>>
    ELSE IF Head(updated) = stream_id THEN Touch(Tail(updated), stream_id)
    ELSE <<Head(updated)>> \o Touch(Tail(updated), stream_id)

\* QuicFecPacket::new_fec_parity
NewFecParity(sequence, fec_block_id, shard_index, total_shards, data) ==
    [NewData(sequence, fec_block_id, shard_index, total_shards, data)
        EXCEPT !.header.packet_type = PacketTypeFecParity]

\* The decoder QuicReceiver::new builds, and the block the receiver is sent:
\* Reed-Solomon with k = 4, r = 2 on a payload that is not empty.
RxFecAlgorithm == "ReedSolomon"
RxFecConfig == [data_shards |-> 4, parity_shards |-> 2]
RxFecPayload == CHOOSE p \in FecPayloads : p # <<>>
RxFecEncoded == Encode(RxFecAlgorithm, RxFecConfig, RxFecPayload)

\* The packet that carries shard i of the block, as send_with_fec builds it:
\* Data packets for the data shards, FecParity packets for the others.
ShardPacket(i) ==
    IF i < RxFecConfig.data_shards
    THEN NewData(i + 1, 1, i, RxFecConfig.data_shards + RxFecConfig.parity_shards,
                 ShardOf(RxFecEncoded.value, i))
    ELSE NewFecParity(i + 1, 1, i, RxFecConfig.data_shards + RxFecConfig.parity_shards,
                      ShardOf(RxFecEncoded.value, i))

\* handle_data_packet as a step of the receiver.
HandleData(packet) ==
    LET r == HandleDataPacket(rxStreams, packet)
    IN  /\ rxStreams' = r.streams
        /\ rxUpdated' = Touch(rxUpdated, StreamIdOf(packet))
        /\ rxDelivered' = IF r.out = None THEN rxDelivered
                          ELSE Append(rxDelivered, r.out[1])

\* QuicReceiver::handle_fec_packet
HandleFecPacket(packet) ==
    /\ rxFecBlock' = AddShard(rxFecBlock, packet.header.shard_index, packet.data,
                              [data_shards |-> packet.header.total_shards,
                               parity_shards |-> 1,
                               shard_size |-> Len(packet.data), total_size |-> 0])
    /\ UNCHANGED <<rxStreams, rxUpdated, rxDelivered, fec_recovered>>

\* process_recovered_block: the block parsed as one packet and handled as a
\* Data packet when it parses and verifies.
ProcessRecoveredBlock(block_data) ==
    LET recovered == PacketFromBytes(block_data)
    IN  IF recovered.tag = "Ok" /\ Verify(recovered.packet)
        THEN HandleData(recovered.packet)
        ELSE UNCHANGED <<rxStreams, rxUpdated, rxDelivered>>

\* attempt_fec_recovery after add_shard: decode, and the block recovered
\* counted and processed.
TryToDecode(added) ==
    LET r == Decode(RxFecAlgorithm, RxFecConfig, added)
    IN  /\ rxFecBlock' = r.block
        /\ IF r.returned.tag = "Ok" /\ r.returned.value # None
           THEN /\ fec_recovered' = fec_recovered + 1
                /\ ProcessRecoveredBlock(r.returned.value[1])
           ELSE UNCHANGED <<fec_recovered, rxStreams, rxUpdated, rxDelivered>>

\* QuicReceiver::attempt_fec_recovery
AttemptFecRecovery(packet) ==
    IF packet.header.packet_type = PacketTypeData
    THEN TryToDecode(AddShard(rxFecBlock, packet.header.shard_index, packet.data,
                              [data_shards |-> packet.header.total_shards,
                               parity_shards |-> 0,
                               shard_size |-> Len(packet.data), total_size |-> 0]))
    ELSE UNCHANGED <<rxFecBlock, fec_recovered, rxStreams, rxUpdated, rxDelivered>>

\* QuicReceiver::receive_packet after from_bytes returned the packet.  The
\* packet verifies, from_bytes having made the same test, so the recovery is
\* not attempted.
ReceiveParsed(packet) ==
    IF ~Verify(packet) THEN AttemptFecRecovery(packet)
    ELSE IF packet.header.packet_type = PacketTypeData
    THEN HandleData(packet) /\ UNCHANGED <<rxFecBlock, fec_recovered>>
    ELSE IF packet.header.packet_type = PacketTypeFecParity
    THEN HandleFecPacket(packet)
    ELSE UNCHANGED <<rxFecBlock, fec_recovered, rxStreams, rxUpdated, rxDelivered>>

\* QuicReceiver::receive_packet for the Data packet of a sequence of the
\* stream.
ReceivePacket(sequence) == ReceiveParsed(NewData(sequence, 0, 0, 1, PayloadOf(sequence)))

\* receive_packet for a packet that arrives for the first time: the packets
\* of one stream arrive in any order.
ReceiveData(sequence) ==
    /\ sequence \in rxPending
    /\ ReceivePacket(sequence)
    /\ rxPending' = rxPending \ {sequence}
    /\ UNCHANGED <<rxCount, rxDuplicates, rxShards, rxDropped>>

MaxDuplicates == 2

\* receive_packet for a packet that arrived before: a duplicate.
ReceiveDuplicate(sequence) ==
    /\ sequence \in (0..(rxCount - 1)) \ rxPending
    /\ rxDuplicates < MaxDuplicates
    /\ ReceivePacket(sequence)
    /\ rxDuplicates' = rxDuplicates + 1
    /\ UNCHANGED <<rxCount, rxPending, rxShards, rxDropped>>

\* streams.retain(|_, stream| stream.last_update > cutoff)
Retain(streams, kept) == [stream_id \in DOMAIN streams \cap kept |-> streams[stream_id]]

\* QuicReceiver::cleanup_old_streams with a cutoff that the n streams updated
\* longest ago do not pass.
CleanupOldStreams(n) ==
    /\ n \in 1..Len(rxUpdated)
    /\ rxUpdated' = SubSeq(rxUpdated, n + 1, Len(rxUpdated))
    /\ rxStreams' = Retain(rxStreams, {rxUpdated[i] : i \in (n + 1)..Len(rxUpdated)})
    /\ UNCHANGED <<rxCount, rxPending, rxDelivered, rxDuplicates, rxShards, rxDropped,
                   rxFecBlock, fec_recovered>>

\* A receiver that is sent the shards of one block, two of which are dropped
\* on the way.
RxFecInit ==
    /\ rxCount = 0
    /\ rxPending = {}
    /\ rxStreams = <<>>
    /\ rxDelivered = <<>>
    /\ rxUpdated = <<>>
    /\ rxDuplicates = 0
    /\ rxDropped \in Choices(0..(RxFecConfig.data_shards + RxFecConfig.parity_shards - 1),
                              RxFecConfig.parity_shards)
    /\ rxShards = (0..(RxFecConfig.data_shards + RxFecConfig.parity_shards - 1)) \ rxDropped
    /\ rxFecBlock = None
    /\ fec_recovered = 0

\* receive_packet for the packet of a shard of the block.
ReceiveShard(shard_index) ==
    /\ shard_index \in rxShards
    /\ ReceiveParsed(ShardPacket(shard_index))
    /\ rxShards' = rxShards \ {shard_index}
    /\ UNCHANGED <<rxCount, rxPending, rxDuplicates, rxDropped>>

(***************************************************************************)
(* connection.rs and the FecEncoder / FecDecoder of fec.rs it uses          *)
(***************************************************************************)

\* FecEncoder::encode: the data shards followed by the parity shards.  For
\* empty data shard_size is 0 and padded_data.chunks(0) panics.
FecEncoderEncode(config, data) ==
    LET shard_size == ShardSize(Len(data), config.data_shards)
        data_shards ==
            Tuple([c \in 1..config.data_shards |-> DataShard(data, c - 1, shard_size)])
        encoded == RsEncode(config, data_shards, shard_size)
    IN  IF shard_size = 0 THEN [tag |-> "Panic"]
        ELSE IF encoded.tag = "Err" THEN encoded
        ELSE Ok(data_shards \o encoded.value)

\* FecDecoder::new: no shard received (received_shards holds the shards that
\* are Some, by index), no shard size.
FecDecoderNew == [received_shards |-> <<>>, shard_size |-> None]

\* FecDecoder::add_shard: the decoder afterwards and the value returned.
FecDecoderAddShard(config, decoder, shard_index, shard_data) ==
    IF shard_index >= config.data_shards + config.parity_shards
    THEN [returned |-> Err("Shard index out of range"), decoder |-> decoder]
    ELSE LET added == [decoder EXCEPT
                          !.shard_size = IF @ = None THEN Some(Len(shard_data)) ELSE @,
                          !.received_shards = MapInsert(@, shard_index, shard_data)]
         IN  [returned |-> Ok(Cardinality(DOMAIN added.received_shards)
                                  >= config.data_shards),
              decoder |-> added]

\* FecDecoder::decode after the call of reconstruct: the data shards
\* concatenated, padding included.
Concatenated(shards) ==
    IF shards.tag = "Err" THEN shards ELSE Ok(Some(ExtendFromSlices(shards.value)))

\* FecDecoder::decode
FecDecoderDecode(config, decoder) ==
    IF Cardinality(DOMAIN decoder.received_shards) < config.data_shards THEN Ok(None)
    ELSE IF decoder.shard_size = None THEN Err("Shard size not set")
    ELSE Concatenated(RsReconstruct(config, decoder.received_shards,
                                    decoder.shard_size[1]))

\* recv_with_fec once add_shard returned ready: decode, and the decoder of
\* the block removed when it returned data.
DecodeReady(config, decoder) ==
    LET decoded == FecDecoderDecode(config, decoder)
    IN  IF decoded.tag = "Err" THEN [returned |-> decoded, decoders |-> Some(decoder)]
        ELSE IF decoded.value = None
        THEN [returned |-> Ok(None), decoders |-> Some(decoder)]
        ELSE [returned |-> decoded, decoders |-> None]

\* recv_with_fec after the call of add_shard.
AfterAddShard(config, added) ==
    IF added.returned.tag = "Err"
    THEN [returned |-> added.returned, decoders |-> Some(added.decoder)]
    ELSE IF added.returned.value THEN DecodeReady(config, added.decoder)
    ELSE [returned |-> Ok(None), decoders |-> Some(added.decoder)]

\* QuicFecConnection::recv_with_fec on the entry of fec_decoders for the
\* block of the packet (None: no entry): the value returned and the entry
\* afterwards.
RecvWithFec(config, decoders, shard_index, data) ==
    AfterAddShard(config,
        FecDecoderAddShard(config,
                           IF decoders = None THEN FecDecoderNew ELSE decoders[1],
                           shard_index, data))

\* The payloads the connection is examined with (the non-empty ones: send
\* does not get past encode with an empty one), and the shards that may
\* arrive next: any of those under way when the block has at most
\* MaxFreeOrder shards, the first or the last of them otherwise.
ConnPayloads == FecPayloads \ {<<>>}
MaxFreeOrder == 11
MayArrive(config, pending) ==
    IF config.data_shards + config.parity_shards <= MaxFreeOrder THEN pending
    ELSE {i \in pending : (\A j \in pending : i <= j) \/ (\A j \in pending : j <= i)}

\* The connection at rest.
ConnIdle ==
    /\ connConfig = [data_shards |-> 8, parity_shards |-> 3]
    /\ connPayload = <<>>
    /\ connSent = None
    /\ connPending = {}
    /\ connDecoders = None
    /\ connDelivered = <<>>

\* A connected pair with FEC enabled and one of the presets, and a payload to
\* send; nothing sent.
ConnInit ==
    /\ connConfig \in FecPresets
    /\ connPayload \in ConnPayloads
    /\ connSent = None
    /\ connPending = {}
    /\ connDecoders = None
    /\ connDelivered = <<>>

\* QuicFecConnection::send with FEC: the block is encoded and each of its
\* shards leaves in a packet of its own.
ConnSend ==
    /\ connSent = None
    /\ LET encoded == FecEncoderEncode(connConfig, connPayload)
       IN  /\ connSent' = Some(encoded)
           /\ connPending' = IF encoded.tag = "Ok" THEN 0..(Len(encoded.value) - 1) ELSE {}
    /\ UNCHANGED <<connConfig, connPayload, connDecoders, connDelivered>>

\* QuicFecConnection::recv for the packet of one shard of the block, parsed.
ConnRecv(shard_index) ==
    /\ shard_index \in MayArrive(connConfig, connPending)
    /\ LET r == RecvWithFec(connConfig, connDecoders, shard_index,
                            connSent[1].value[shard_index + 1])
       IN  /\ connDecoders' = r.decoders
           /\ connDelivered' = IF r.returned.tag = "Ok" /\ r.returned.value # None
                               THEN Append(connDelivered, r.returned.value[1])
                               ELSE connDelivered
    /\ connPending' = connPending \ {shard_index}
    /\ UNCHANGED <<connConfig, connPayload, connSent>>

(***************************************************************************)
(* file_transfer.rs and the handle_message of server.rs                     *)
(***************************************************************************)

\* common::blake3_hash, by the fingerprint that stands for the digest.
Blake3Hash(data) == Fingerprint(data)

\* let chunk_size = 64 * 1024, scaled to the files of the model.
ChunkSize == 2

\* The files a client sends, of three chunks and of one, the identifier of
\* its transfer and the path it asks for.
FtFiles == {<<1, 2, 3, 4, 5>>, <<9>>}
FtTransferIds == {"t1"}
FtRemotePath == "f"

\* ((file_size + chunk_size - 1) / chunk_size) as usize
ChunksTotal(file_size) == (file_size + ChunkSize - 1) \div ChunkSize

\* The chunk of a file at an index, as the client cuts it.
ChunkOf(file, chunk_index) ==
    SubSeq(file, chunk_index * ChunkSize + 1,
           IF (chunk_index + 1) * ChunkSize < Len(file)
           THEN (chunk_index + 1) * ChunkSize ELSE Len(file))

\* Data damaged on the way: not the bytes that were hashed.
Damaged(data) == <<0>> \o data

\* The ChunkData message of a chunk: chunk_hash is the hash of the chunk the
\* client cut, data is that chunk or, damaged, other bytes.
ChunkData(transfer_id, file, chunk_index, damaged) ==
    [transfer_id |-> transfer_id, chunk_index |-> chunk_index,
     offset |-> chunk_index * ChunkSize,
     data |-> IF damaged THEN Damaged(ChunkOf(file, chunk_index)) ELSE ChunkOf(file, chunk_index),
     chunk_hash |-> Blake3Hash(ChunkOf(file, chunk_index)),
     is_last |-> chunk_index + 1 = ChunksTotal(Len(file))]

\* The StartTransferRequest of a file.
StartTransferRequest(transfer_id, file, with_hash, resume_offset) ==
    [transfer_id |-> transfer_id, remote_path |-> FtRemotePath, file_size |-> Len(file),
     file_hash |-> IF with_hash THEN Some(Blake3Hash(file)) ELSE None,
     resume_offset |-> resume_offset]

\* The offsets a client resumes from: none, or the start of a chunk.
ResumeOffsets(file) ==
    {None} \cup {Some(k * ChunkSize) : k \in 1..(ChunksTotal(Len(file)) - 1)}

\* FileTransferHandler::start_transfer: the ActiveTransfer it inserts.
ActiveTransfer(request) ==
    [transfer_id |-> request.transfer_id,
     file_path |-> <<"storage", request.file_path>>,
     total_size |-> request.file_size,
     bytes_received |-> IF request.resume_offset = None THEN 0 ELSE request.resume_offset[1],
     chunks_received |-> {},
     chunks_total |-> ChunksTotal(request.file_size),
     status |-> "InProgress",
     file_hash |-> request.file_hash]

\* temp_path.join(format!("{}_{}.chunk", transfer_id, chunk_index))
ChunkPath(transfer_id, chunk_index) == <<"temp", transfer_id, chunk_index>>

\* FileTransferHandler::store_chunk
StoreChunk(transfers, chunk_storage, temp_files, transfer_id, chunk_index, chunk_data) ==
    IF transfer_id \notin DOMAIN transfers
    THEN [tag |-> "Err", error |-> "Transfer not found",
          transfers |-> transfers, chunk_storage |-> chunk_storage, temp_files |-> temp_files]
    ELSE IF chunk_index \in transfers[transfer_id].chunks_received
    THEN [tag |-> "Ok",
          transfers |-> transfers, chunk_storage |-> chunk_storage, temp_files |-> temp_files]
    ELSE [tag |-> "Ok",
          temp_files |-> MapInsert(temp_files, ChunkPath(transfer_id, chunk_index), chunk_data),
          transfers |-> [transfers EXCEPT
              ![transfer_id].chunks_received = @ \cup {chunk_index},
              ![transfer_id].bytes_received = @ + Len(chunk_data)],
          chunk_storage |-> MapInsert(chunk_storage, transfer_id,
              MapInsert(IF transfer_id \in DOMAIN chunk_storage
                        THEN chunk_storage[transfer_id] ELSE <<>>,
                        chunk_index, ChunkPath(transfer_id, chunk_index)))]

\* FileTransferHandler::get_progress, without the speed and the percentage.
GetProgress(transfers, transfer_id) ==
    IF transfer_id \notin DOMAIN transfers THEN None
    ELSE Some([transfer_id |-> transfer_id,
               bytes_received |-> transfers[transfer_id].bytes_received,
               total_bytes |-> transfers[transfer_id].total_size,
               chunks_received |-> Cardinality(transfers[transfer_id].chunks_received),
               chunks_total |-> transfers[transfer_id].chunks_total,
               is_complete |-> Cardinality(transfers[transfer_id].chunks_received) >=
                                   transfers[transfer_id].chunks_total])

\* The chunk files of the indexes from chunk_index up to chunks_total, read
\* and written to the output in that order.
RECURSIVE WriteChunks(_, _, _, _)
WriteChunks(chunks, temp_files, chunk_index, chunks_total) ==
    IF chunk_index >= chunks_total THEN <<>>
    ELSE temp_files[chunks[chunk_index]] \o
         WriteChunks(chunks, temp_files, chunk_index + 1, chunks_total)

\* FileTransferHandler::reassemble_file
ReassembleFile(transfers, chunk_storage, temp_files, stored_files, transfer_id) ==
    IF transfer_id \notin DOMAIN transfers \/ transfer_id \notin DOMAIN chunk_storage
    THEN [tag |-> "Err", error |-> "Transfer not found",
          transfers |-> transfers, stored_files |-> stored_files]
    ELSE IF \E chunk_index \in 0..(transfers[transfer_id].chunks_total - 1) :
                chunk_index \notin DOMAIN chunk_storage[transfer_id]
    THEN [tag |-> "Err", error |-> "Missing chunk",
          transfers |-> transfers, stored_files |-> stored_files]
    ELSE [tag |-> "Ok", file_path |-> transfers[transfer_id].file_path,
          stored_files |-> MapInsert(stored_files, transfers[transfer_id].file_path,
              WriteChunks(chunk_storage[transfer_id], temp_files, 0,
                          transfers[transfer_id].chunks_total)),
          transfers |-> [transfers EXCEPT ![transfer_id].status = "Completed"]]

\* FileTransferHandler::verify_file, on a file that can be read.
VerifyFile(transfers, stored_files, transfer_id) ==
    IF transfers[transfer_id].file_hash = None THEN TRUE
    ELSE Blake3Hash(stored_files[transfers[transfer_id].file_path]) =
             transfers[transfer_id].file_hash[1]

\* FileTransferHandler::new, and a connection on which nothing was handled.
FtIdle ==
    /\ ftFile = <<>>
    /\ ftTransfers = <<>>
    /\ ftChunkStorage = <<>>
    /\ ftTempFiles = <<>>
    /\ ftStoredFiles = <<>>
    /\ ftReplies = <<>>

FtInit ==
    /\ ftFile \in FtFiles
    /\ ftTransfers = <<>>
    /\ ftChunkStorage = <<>>
    /\ ftTempFiles = <<>>
    /\ ftStoredFiles = <<>>
    /\ ftReplies = <<>>

\* handle_message(ClientMessage::StartTransfer(req)); the list of transfers
\* of the session is not part of the model.
HandleStartTransfer(req) ==
    /\ ftTransfers' = MapInsert(ftTransfers, req.transfer_id,
                                ActiveTransfer([transfer_id |-> req.transfer_id,
                                                file_path |-> req.remote_path,
                                                file_size |-> req.file_size,
                                                file_hash |-> req.file_hash,
                                                resume_offset |-> req.resume_offset]))
    /\ ftChunkStorage' = MapInsert(ftChunkStorage, req.transfer_id, <<>>)
    /\ ftReplies' = <<[type |-> "TransferAccepted", transfer_id |-> req.transfer_id,
                       chunk_size |-> ChunkSize]>>
    /\ UNCHANGED <<ftFile, ftTempFiles, ftStoredFiles>>

\* What handle_message sends after a chunk was stored and acknowledged, and
\* the state it leaves.
AfterChunkReceived(stored, chunk_data) ==
    LET progress == GetProgress(stored.transfers, chunk_data.transfer_id)
        reassembled == ReassembleFile(stored.transfers, stored.chunk_storage, stored.temp_files,
                                      ftStoredFiles, chunk_data.transfer_id)
        ack == [type |-> "ChunkReceived", transfer_id |-> chunk_data.transfer_id,
                chunk_index |-> chunk_data.chunk_index]
    IN  IF progress = None
        THEN [transfers |-> stored.transfers, stored_files |-> ftStoredFiles, replies |-> <<ack>>]
        ELSE IF ~progress[1].is_complete
        THEN [transfers |-> stored.transfers, stored_files |-> ftStoredFiles,
              replies |-> <<ack, [type |-> "TransferProgress",
                                  transfer_id |-> chunk_data.transfer_id,
                                  bytes_received |-> progress[1].bytes_received,
                                  total_bytes |-> progress[1].total_bytes]>>]
        ELSE IF reassembled.tag = "Err"
        THEN [transfers |-> stored.transfers, stored_files |-> ftStoredFiles, replies |-> <<ack>>]
        ELSE [transfers |-> reassembled.transfers, stored_files |-> reassembled.stored_files,
              replies |-> <<ack,
                  IF VerifyFile(reassembled.transfers, reassembled.stored_files,
                                chunk_data.transfer_id)
                  THEN [type |-> "TransferComplete", transfer_id |-> chunk_data.transfer_id,
                        file_path |-> reassembled.file_path,
                        file_size |-> progress[1].total_bytes]
                  ELSE [type |-> "TransferError", transfer_id |-> chunk_data.transfer_id,
                        error |-> "File integrity verification failed"]>>]

\* handle_message(ClientMessage::SendChunk(chunk_data))
HandleSendChunk(chunk_data) ==
    LET stored == StoreChunk(ftTransfers, ftChunkStorage, ftTempFiles, chunk_data.transfer_id,
                             chunk_data.chunk_index, chunk_data.data)
        after == AfterChunkReceived(stored, chunk_data)
    IN  IF stored.tag = "Err"
        THEN /\ ftReplies' = <<>>
             /\ UNCHANGED <<ftFile, ftTransfers, ftChunkStorage, ftTempFiles, ftStoredFiles>>
        ELSE /\ ftTransfers' = after.transfers
             /\ ftChunkStorage' = stored.chunk_storage
             /\ ftTempFiles' = stored.temp_files
             /\ ftStoredFiles' = after.stored_files
             /\ ftReplies' = after.replies
             /\ UNCHANGED ftFile

\* handle_message(ClientMessage::QueryStatus(transfer_id))
HandleQueryStatus(transfer_id) ==
    LET progress == GetProgress(ftTransfers, transfer_id)
    IN  /\ ftReplies' = IF progress = None THEN <<>>
                        ELSE <<[type |-> "TransferProgress", transfer_id |-> transfer_id,
                                bytes_received |-> progress[1].bytes_received,
                                total_bytes |-> progress[1].total_bytes]>>
        /\ UNCHANGED <<ftFile, ftTransfers, ftChunkStorage, ftTempFiles, ftStoredFiles>>

(***************************************************************************)
(* file_transfer.rs: store_chunk called by several tasks                   *)
(***************************************************************************)

\* The store_chunk calls one task makes in a run.
MaxStoreCalls == 2

\* A task that is not inside store_chunk.
NoStoreCall == [pc |-> "idle", transfer_id |-> "", chunk_index |-> 0, chunk_data |-> <<>>]

\* FileTransferHandler::new with its tasks, none inside a call.
ScInit ==
    /\ ftCalls = [t \in Threads |-> [call |-> NoStoreCall, calls |-> 0]]
    /\ ftStarted = <<>>

\* The FileTransferRequest handle_message makes of a StartTransferRequest.
FileTransferRequest(req) ==
    [transfer_id |-> req.transfer_id, file_path |-> req.remote_path,
     file_size |-> req.file_size, file_hash |-> req.file_hash,
     resume_offset |-> req.resume_offset]

\* FileTransferHandler::start_transfer
StartTransfer(request) ==
    /\ request.transfer_id \notin DOMAIN ftTransfers
    /\ ftTransfers' = MapInsert(ftTransfers, request.transfer_id, ActiveTransfer(request))
    /\ ftChunkStorage' = MapInsert(ftChunkStorage, request.transfer_id, <<>>)
    /\ ftStarted' = MapInsert(ftStarted, request.transfer_id, request)
    /\ UNCHANGED <<ftFile, ftTempFiles, ftStoredFiles, ftReplies, ftCalls>>

\* store_chunk, its first block: under the read lock of active_transfers the
\* transfer is looked up and the chunk index tested; the lock is dropped.
StoreChunkCheck(t, transfer_id, chunk_index, chunk_data) ==
    /\ ftCalls[t].call.pc = "idle"
    /\ ftCalls[t].calls < MaxStoreCalls
    /\ transfer_id \in DOMAIN ftTransfers
    /\ ftCalls' = [ftCalls EXCEPT ![t] =
           [call |-> IF chunk_index \in ftTransfers[transfer_id].chunks_received
                     THEN NoStoreCall
                     ELSE [pc |-> "write", transfer_id |-> transfer_id,
                           chunk_index |-> chunk_index, chunk_data |-> chunk_data],
            calls |-> @.calls + 1]]
    /\ UNCHANGED <<ftVars, ftStarted>>

\* store_chunk: the chunk file is created, written and synced, no lock held.
StoreChunkWrite(t) ==
    LET call == ftCalls[t].call
    IN  /\ call.pc = "write"
        /\ ftTempFiles' = MapInsert(ftTempFiles, ChunkPath(call.transfer_id, call.chunk_index),
                                    call.chunk_data)
        /\ ftCalls' = [ftCalls EXCEPT ![t].call.pc = "update"]
        /\ UNCHANGED <<ftFile, ftTransfers, ftChunkStorage, ftStoredFiles, ftReplies, ftStarted>>

\* store_chunk: under the write lock of active_transfers the index is
\* inserted and the length of the chunk added to bytes_received.
StoreChunkUpdate(t) ==
    LET call == ftCalls[t].call
    IN  /\ call.pc = "update"
        /\ ftTransfers' = [ftTransfers EXCEPT
               ![call.transfer_id].chunks_received = @ \cup {call.chunk_index},
               ![call.transfer_id].bytes_received = @ + Len(call.chunk_data)]
        /\ ftCalls' = [ftCalls EXCEPT ![t].call.pc = "storage"]
        /\ UNCHANGED <<ftFile, ftChunkStorage, ftTempFiles, ftStoredFiles, ftReplies, ftStarted>>

\* store_chunk: under the write lock of chunk_storage the path of the chunk
\* is recorded; the call returns.
StoreChunkRecord(t) ==
    LET call == ftCalls[t].call
    IN  /\ call.pc = "storage"
        /\ ftChunkStorage' = MapInsert(ftChunkStorage, call.transfer_id,
               MapInsert(IF call.transfer_id \in DOMAIN ftChunkStorage
                         THEN ftChunkStorage[call.transfer_id] ELSE <<>>,
                         call.chunk_index, ChunkPath(call.transfer_id, call.chunk_index)))
        /\ ftCalls' = [ftCalls EXCEPT ![t].call = NoStoreCall]
        /\ UNCHANGED <<ftFile, ftTransfers, ftTempFiles, ftStoredFiles, ftReplies, ftStarted>>

(***************************************************************************)
(* file_client.rs: transfer_file against the handle_message of server.rs   *)
(***************************************************************************)

\* The transfer_id transfer_file draws.
XfTransferId == "t1"

\* The files the client sends: up to MaxXfFileLen bytes, so up to three chunks.
MaxXfFileLen == 5
XfFiles == UNION {[1..n -> {1, 2}] : n \in 0..MaxXfFileLen}

\* A connected client that has not called transfer_file, and nothing in
\* flight.
XfInit ==
    /\ xfClient = [pc |-> "new", chunk_index |-> 0, total_chunks |-> 0,
                   status |-> "None", returned |-> "None"]
    /\ xfToServer = <<>>
    /\ xfToClient = <<>>

\* transfer_file: the StartTransfer request is sent.
TransferFileStart ==
    /\ xfClient.pc = "new"
    /\ xfToServer' = Append(xfToServer,
           [type |-> "StartTransfer",
            body |-> StartTransferRequest(XfTransferId, ftFile, TRUE, None)])
    /\ xfClient' = [xfClient EXCEPT !.pc = "await_accept"]
    /\ UNCHANGED <<xfToClient, ftVars>>

\* transfer_file: the answer to StartTransfer is read; on TransferAccepted
\* the client's transfer is inserted and send_file_chunks begins.
TransferFileAccepted ==
    /\ xfClient.pc = "await_accept"
    /\ xfToClient # <<>>
    /\ xfToClient' = Tail(xfToClient)
    /\ xfClient' = IF Head(xfToClient).type = "TransferAccepted"
                   THEN [xfClient EXCEPT
                            !.pc = IF Len(ftFile) = 0 THEN "returned" ELSE "send",
                            !.returned = IF Len(ftFile) = 0 THEN "Ok" ELSE @,
                            !.status = "InProgress",
                            !.total_chunks = (Len(ftFile) + Head(xfToClient).chunk_size - 1)
                                                 \div Head(xfToClient).chunk_size]
                   ELSE [xfClient EXCEPT !.pc = "returned", !.returned = "Err"]
    /\ UNCHANGED <<xfToServer, ftVars>>

\* send_file_chunks: the chunk of the loop's index is cut, hashed and sent.
SendFileChunk ==
    /\ xfClient.pc = "send"
    /\ xfToServer' = Append(xfToServer,
           [type |-> "SendChunk",
            body |-> ChunkData(XfTransferId, ftFile, xfClient.chunk_index, FALSE)])
    /\ xfClient' = [xfClient EXCEPT !.pc = "await_ack"]
    /\ UNCHANGED <<xfToClient, ftVars>>

\* send_file_chunks: one message is read for the chunk sent and matched; the
\* loop goes on to the next index, breaks or returns.
ReceiveForChunk ==
    /\ xfClient.pc = "await_ack"
    /\ xfToClient # <<>>
    /\ xfToClient' = Tail(xfToClient)
    /\ LET response == Head(xfToClient)
           last == xfClient.chunk_index + 1 = xfClient.total_chunks
       IN  xfClient' =
               IF response.type = "TransferComplete"
               THEN [xfClient EXCEPT !.status = "Completed", !.pc = "returned",
                                     !.returned = "Ok"]
               ELSE IF response.type = "TransferError"
               THEN [xfClient EXCEPT !.pc = "returned", !.returned = "Err"]
               ELSE IF last
               THEN [xfClient EXCEPT !.pc = "returned", !.returned = "Ok"]
               ELSE [xfClient EXCEPT !.pc = "send", !.chunk_index = @ + 1]
    /\ UNCHANGED <<xfToServer, ftVars>>

\* The main loop of handle_connection: the next message of the client is read
\* and handled, and what handle_message sends goes to the client in order.
ServerHandlesMessage ==
    /\ xfToServer # <<>>
    /\ xfToServer' = Tail(xfToServer)
    /\ IF Head(xfToServer).type = "StartTransfer"
       THEN HandleStartTransfer(Head(xfToServer).body)
       ELSE HandleSendChunk(Head(xfToServer).body)
    /\ xfToClient' = xfToClient \o ftReplies'
    /\ UNCHANGED xfClient

(***************************************************************************)
(* handover.rs: handover_to called by several tasks through check_handover *)
(***************************************************************************)

\* The tasks that call check_handover on the one connection.
MaxHmTasks == 2
HmTasks == 1..MaxHmTasks

NoHandoverCall == [pc |-> "idle", new_path |-> None, outcome |-> None]

\* HandoverManager::new(initial_path, strategy) and no call under way.
HmInit ==
    /\ hmCurrent \in NetworkPaths
    /\ hmInProgress = FALSE
    /\ hmLast = FALSE
    /\ hmCalls = [t \in HmTasks |-> NoHandoverCall]
    /\ hmSent = <<>>

\* The manager while another component is examined.
HmIdle ==
    /\ hmCurrent = "WiFi"
    /\ hmInProgress = FALSE
    /\ hmLast = FALSE
    /\ hmCalls = [t \in HmTasks |-> NoHandoverCall]
    /\ hmSent = <<>>

\* handover_to: current_path is read and compared with new_path.
HandoverToReadCurrent(t, new_path) ==
    /\ hmCalls[t].pc = "idle"
    /\ hmCalls' = [hmCalls EXCEPT ![t] =
           IF new_path = hmCurrent
           THEN [pc |-> "returned_ok", new_path |-> new_path, outcome |-> "already_current"]
           ELSE [pc |-> "check_in_progress", new_path |-> new_path, outcome |-> None]]
    /\ UNCHANGED <<hmCurrent, hmInProgress, hmLast, hmSent>>

\* handover_to: under the write lock of handover_in_progress, return Ok when
\* a handover is in progress and set the flag otherwise.
HandoverToCheckInProgress(t) ==
    /\ hmCalls[t].pc = "check_in_progress"
    /\ IF hmInProgress
       THEN /\ hmCalls' = [hmCalls EXCEPT ![t].pc = "returned_ok",
                                          ![t].outcome = "in_progress"]
            /\ UNCHANGED hmInProgress
       ELSE /\ hmInProgress' = TRUE
            /\ hmCalls' = [hmCalls EXCEPT ![t].pc = "update_current"]
    /\ UNCHANGED <<hmCurrent, hmLast, hmSent>>

\* handover_to: current_path is written.
HandoverToUpdateCurrent(t) ==
    /\ hmCalls[t].pc = "update_current"
    /\ hmCurrent' = hmCalls[t].new_path
    /\ hmCalls' = [hmCalls EXCEPT ![t].pc = "update_last", ![t].outcome = "switched"]
    /\ UNCHANGED <<hmInProgress, hmLast, hmSent>>

\* handover_to: last_handover is written.
HandoverToUpdateLast(t) ==
    /\ hmCalls[t].pc = "update_last"
    /\ hmLast' = TRUE
    /\ hmCalls' = [hmCalls EXCEPT ![t].pc = "mark_complete"]
    /\ UNCHANGED <<hmCurrent, hmInProgress, hmSent>>

\* handover_to: handover_in_progress is cleared and Ok returned.
HandoverToMarkComplete(t) ==
    /\ hmCalls[t].pc = "mark_complete"
    /\ hmInProgress' = FALSE
    /\ hmCalls' = [hmCalls EXCEPT ![t].pc = "returned_ok"]
    /\ UNCHANGED <<hmCurrent, hmLast, hmSent>>

\* check_handover after handover_to returned Ok: the Handover packet naming
\* new_path is sent.
CheckHandoverSend(t) ==
    /\ hmCalls[t].pc = "returned_ok"
    /\ hmSent' = Append(hmSent, hmCalls[t].new_path)
    /\ hmCalls' = [hmCalls EXCEPT ![t].pc = "sent"]
    /\ UNCHANGED <<hmCurrent, hmInProgress, hmLast>>

(***************************************************************************)
(* file_transfer.rs: cleanup_incomplete                                    *)
(***************************************************************************)

MaxCleanupCalls == 2

\* No call of cleanup_incomplete under way.
ClInit ==
    /\ clPc = "idle"
    /\ clLocks = {}
    /\ clToRemove = <<>>
    /\ clChunks = {}
    /\ clAwait = None
    /\ clCalls = 0

\* cleanup_incomplete: active_transfers is write-locked and the ids of the
\* transfers started before the cutoff (old) and not Completed are collected.
CleanupIncompleteCollect(old) ==
    /\ clPc = "idle"
    /\ clCalls < MaxCleanupCalls
    /\ clCalls' = clCalls + 1
    /\ clLocks' = {"active_transfers"}
    /\ clToRemove' \in Orderings({transfer_id \in DOMAIN ftTransfers :
                                     /\ transfer_id \in old
                                     /\ ftTransfers[transfer_id].status # "Completed"})
    /\ clPc' = "for_to_remove"
    /\ UNCHANGED <<clChunks, clAwait, ftVars>>

\* cleanup_incomplete: the next transfer_id of to_remove; chunk_storage is
\* write-locked and the transfer's chunks are taken out of it.  After the
\* last one the function returns and its guards are dropped.
CleanupIncompleteTakeChunks ==
    /\ clPc = "for_to_remove"
    /\ IF clToRemove = <<>>
       THEN /\ clPc' = "idle"
            /\ clLocks' = {}
            /\ UNCHANGED <<clToRemove, clChunks, ftVars>>
       ELSE /\ clLocks' = clLocks \cup {"chunk_storage"}
            /\ clChunks' = IF Head(clToRemove) \in DOMAIN ftChunkStorage
                           THEN {ftChunkStorage[Head(clToRemove)][chunk_index] :
                                    chunk_index \in DOMAIN ftChunkStorage[Head(clToRemove)]}
                           ELSE {}
            /\ ftChunkStorage' = MapRemove(ftChunkStorage, Head(clToRemove))
            /\ clPc' = "for_chunks"
            /\ UNCHANGED <<clToRemove, ftFile, ftTransfers, ftTempFiles, ftStoredFiles,
                           ftReplies>>
    /\ UNCHANGED <<clAwait, clCalls>>

\* cleanup_incomplete: fs::remove_file(chunk_path) is called for the next
\* chunk path and the task is suspended at its await.
CleanupIncompleteRemoveFile ==
    /\ clPc = "for_chunks"
    /\ clAwait = None
    /\ \E chunk_path \in clChunks :
           /\ clAwait' = Some(chunk_path)
           /\ clChunks' = clChunks \ {chunk_path}
    /\ UNCHANGED <<clPc, clLocks, clToRemove, clCalls, ftVars>>

\* The disk has removed the file and the task goes on.
CleanupIncompleteFileRemoved ==
    /\ clAwait # None
    /\ ftTempFiles' = MapRemove(ftTempFiles, clAwait[1])
    /\ clAwait' = None
    /\ UNCHANGED <<clPc, clLocks, clToRemove, clChunks, clCalls, ftFile, ftTransfers,
                   ftChunkStorage, ftStoredFiles, ftReplies>>

\* cleanup_incomplete: the transfer is removed; the guard of chunk_storage
\* is dropped at the end of the loop's body.
CleanupIncompleteRemoveTransfer ==
    /\ clPc = "for_chunks"
    /\ clAwait = None
    /\ clChunks = {}
    /\ ftTransfers' = MapRemove(ftTransfers, Head(clToRemove))
    /\ clToRemove' = Tail(clToRemove)
    /\ clLocks' = clLocks \ {"chunk_storage"}
    /\ clPc' = "for_to_remove"
    /\ UNCHANGED <<clChunks, clAwait, clCalls, ftFile, ftChunkStorage, ftTempFiles,
                   ftStoredFiles, ftReplies>>

(***************************************************************************)
(* telemetry_ai/buffer.rs: TelemetryBuffer                                 *)
(***************************************************************************)

\* The values of max_size, the priorities (u8, 255 the lowest), the age
\* limit and the clock the buffer is examined with.
MaxBufferSize == 2
TbPriorities == {0, 1, 255}
TbMaxAgeSeconds == 2
MaxTbNow == 2
MaxTbAdds == 3

\* The buffer while another component is examined.
TbIdle ==
    /\ tbBuffer = <<>>
    /\ tbMaxSize = 1
    /\ tbNow = 0
    /\ tbAdded = 0
    /\ tbEvicted = None

\* TelemetryBuffer::new(max_size, max_age_seconds)
TbInit ==
    /\ tbBuffer = <<>>
    /\ tbMaxSize \in 1..MaxBufferSize
    /\ tbNow = 0
    /\ tbAdded = 0
    /\ tbEvicted = None

\* TelemetryBuffer::cleanup_old
RECURSIVE CleanupOld(_, _)
CleanupOld(buffer, now) ==
    IF buffer = <<>> THEN <<>>
    ELSE IF now - Head(buffer).timestamp < TbMaxAgeSeconds
    THEN <<Head(buffer)>> \o CleanupOld(Tail(buffer), now)
    ELSE CleanupOld(Tail(buffer), now)

\* buffer.iter().position(|c| c.priority == 255) and
\* buffer.iter().position(|c| c.priority > priority), as indexes from 1;
\* 0 when there is none.
TbPosition(buffer, p(_)) ==
    IF \E i \in 1..Len(buffer) : p(buffer[i])
    THEN CHOOSE i \in 1..Len(buffer) :
             p(buffer[i]) /\ \A j \in 1..(i - 1) : ~p(buffer[j])
    ELSE 0

\* VecDeque::remove(pos) and VecDeque::insert(pos, chunk), indexes from 1.
VecRemove(buffer, pos) == SubSeq(buffer, 1, pos - 1) \o SubSeq(buffer, pos + 1, Len(buffer))
VecInsert(buffer, pos, chunk) ==
    SubSeq(buffer, 1, pos - 1) \o <<chunk>> \o SubSeq(buffer, pos, Len(buffer))

\* The position add removes from a full buffer: that of the first chunk of
\* priority 255, or else the front.
EvictPosition(buffer) ==
    LET IsLowest(c) == c.priority = 255
        pos == TbPosition(buffer, IsLowest)
    IN  IF pos # 0 THEN pos ELSE 1

\* TelemetryBuffer::add
TbAdd(priority) ==
    /\ tbAdded < MaxTbAdds
    /\ LET kept == CleanupOld(tbBuffer, tbNow)
           full == Len(kept) >= tbMaxSize
           room == IF full /\ kept # <<>> THEN VecRemove(kept, EvictPosition(kept)) ELSE kept
           chunk == [data |-> tbAdded, priority |-> priority, timestamp |-> tbNow,
                     retry_count |-> 0]
           IsLower(c) == c.priority > priority
           found == TbPosition(room, IsLower)
           insert_pos == IF found # 0 THEN found ELSE Len(room) + 1
       IN  /\ tbBuffer' = VecInsert(room, insert_pos, chunk)
           /\ tbEvicted' = IF full /\ kept # <<>> THEN Some(kept[EvictPosition(kept)]) ELSE None
    /\ tbAdded' = tbAdded + 1
    /\ UNCHANGED <<tbMaxSize, tbNow>>

\* TelemetryBuffer::pop
TbPop ==
    /\ LET kept == CleanupOld(tbBuffer, tbNow)
       IN  tbBuffer' = IF kept = <<>> THEN <<>> ELSE Tail(kept)
    /\ tbEvicted' = None
    /\ UNCHANGED <<tbMaxSize, tbNow, tbAdded>>

\* A second passes.
TbTick ==
    /\ tbNow < MaxTbNow
    /\ tbNow' = tbNow + 1
    /\ tbEvicted' = None
    /\ UNCHANGED <<tbBuffer, tbMaxSize, tbAdded>>

(***************************************************************************)
(* session.rs                                                              *)
(***************************************************************************)

\* session_timeout: Duration::from_secs(3600)
SESSION_TIMEOUT_SECS == 3600

\* The sessions of the model, the instants the clock is read at, and the
\* transfers one session is given.
SessionIds == {"s1", "s2"}
SsInstants == {0, 1, 3600, 3601}
MaxSessionTransfers == 1

\* Session::new at an instant
SessionNew(session_id, now) ==
    [session_id |-> session_id, connected_at |-> now, last_activity |-> now,
     active_transfers |-> <<>>]

\* Session::is_expired
IsExpired(session, now, timeout) == now - session.last_activity > timeout

\* SessionManager::new
SsInit ==
    /\ ssSessions = <<>>
    /\ ssNow = 0
    /\ ssReturned = NotCalled

\* Instant::now() advances; what get_session returned is of the past.
SsTick(instant) ==
    /\ instant \in SsInstants
    /\ instant > ssNow
    /\ ssNow' = instant
    /\ ssReturned' = NotCalled
    /\ UNCHANGED ssSessions

\* SessionManager::create_session(Session::new(..)), the identifier fresh.
CreateSession(session_id) ==
    /\ session_id \notin DOMAIN ssSessions
    /\ ssSessions' = MapInsert(ssSessions, session_id, SessionNew(session_id, ssNow))
    /\ ssReturned' = NotCalled
    /\ UNCHANGED ssNow

\* SessionManager::get_session
GetSession(session_id) ==
    /\ ssReturned' = Returned(MapGet(ssSessions, session_id))
    /\ UNCHANGED <<ssSessions, ssNow>>

\* SessionManager::update_activity
SsUpdateActivity(session_id) ==
    /\ session_id \in DOMAIN ssSessions
    /\ ssSessions[session_id].last_activity # ssNow
    /\ ssSessions' = [ssSessions EXCEPT ![session_id].last_activity = ssNow]
    /\ ssReturned' = NotCalled
    /\ UNCHANGED ssNow

\* SessionManager::add_transfer
AddTransfer(session_id, transfer_id) ==
    /\ session_id \in DOMAIN ssSessions
    /\ Len(ssSessions[session_id].active_transfers) < MaxSessionTransfers
    /\ ssSessions' = [ssSessions EXCEPT
           ![session_id].active_transfers = Append(@, transfer_id),
           ![session_id].last_activity = ssNow]
    /\ ssReturned' = NotCalled
    /\ UNCHANGED ssNow

\* SessionManager::remove_session
RemoveSession(session_id) ==
    /\ session_id \in DOMAIN ssSessions
    /\ ssSessions' = MapRemove(ssSessions, session_id)
    /\ ssReturned' = NotCalled
    /\ UNCHANGED ssNow

\* SessionManager::cleanup_expired
CleanupExpired ==
    /\ ssSessions' = [session_id \in {s \in DOMAIN ssSessions :
                                         ~IsExpired(ssSessions[s], ssNow, SESSION_TIMEOUT_SECS)}
                         |-> ssSessions[session_id]]
    /\ ssSessions' # ssSessions
    /\ ssReturned' = NotCalled
    /\ UNCHANGED ssNow

(***************************************************************************)
(* server.rs: handle_connection                                            *)
(***************************************************************************)

\* The session_id of Session::new on this connection.
SrvSessionIdNew == "s1"

\* The conn_id run gives the first connection.
SrvConnId == 1

\* The messages read after the handshake in one run.
MaxServerMessages == 4

\* The ClientMessage variants handle_message has no arm for.
UnhandledMessages ==
    {"Connect", "ConnectionEstablished", "PauseTransfer", "ResumeTransfer",
     "CancelTransfer", "ListFiles"}

HandshakeMessages == {"Connect", "ConnectionEstablished", "StartTransfer"}

\* handle_connection as it is spawned for an accepted connection, the
\* connection stored in active_connections.
SrvInit ==
    /\ srvPc = "handshake"
    /\ srvActive = {SrvConnId}
    /\ srvSessionId = None
    /\ srvRead = <<>>
    /\ srvSent = <<>>

\* handle_connection up to the main loop: the first message is read; a
\* Connect whose token authenticates creates the session and is answered
\* with ConnectionAccepted, after which the main loop is entered.
HandleConnectionHandshake(message, is_authenticated) ==
    /\ srvPc = "handshake"
    /\ srvRead' = <<message>>
    /\ IF message # "Connect"
       THEN /\ srvPc' = "failed"
            /\ UNCHANGED <<srvSessionId, srvSent, ssVars>>
       ELSE IF ~is_authenticated
       THEN /\ srvPc' = "failed"
            /\ srvSent' = <<[type |-> "ConnectionRejected", session_id |-> None]>>
            /\ UNCHANGED <<srvSessionId, ssVars>>
       ELSE /\ CreateSession(SrvSessionIdNew)
            /\ srvSessionId' = Some(SrvSessionIdNew)
            /\ srvSent' = <<[type |-> "ConnectionAccepted",
                             session_id |-> Some(SrvSessionIdNew)]>>
            /\ srvPc' = "serving"
    /\ UNCHANGED <<srvActive, ftVars>>

\* handle_connection when no handshake stream can be accepted or read:
\* accept_uni()? returns the error.
HandleConnectionNoHandshake ==
    /\ srvPc = "handshake"
    /\ srvPc' = "failed"
    /\ UNCHANGED <<srvSessionId, srvRead, srvSent, srvActive, ssVars, ftVars>>

\* handle_connection when the session is created and ConnectionAccepted
\* cannot be sent: open_uni()? or write_all()? returns the error.
HandleConnectionAcceptNotSent ==
    /\ srvPc = "handshake"
    /\ srvRead' = <<"Connect">>
    /\ CreateSession(SrvSessionIdNew)
    /\ srvPc' = "failed"
    /\ UNCHANGED <<srvSessionId, srvSent, srvActive, ftVars>>

\* One turn of the main loop: a message is read and given to handle_message.
ReadMessage(message) ==
    /\ srvPc = "serving"
    /\ Len(srvRead) <= MaxServerMessages
    /\ srvRead' = Append(srvRead, message)
    /\ UNCHANGED <<srvPc, srvSessionId, srvSent, srvActive>>

\* The main loop with ClientMessage::StartTransfer.
ServeStartTransfer(req) ==
    /\ ReadMessage("StartTransfer")
    /\ HandleStartTransfer(req)
    /\ AddTransfer(srvSessionId[1], req.transfer_id)

\* The main loop with ClientMessage::SendChunk.
ServeSendChunk(chunk_data) ==
    /\ ReadMessage("SendChunk")
    /\ HandleSendChunk(chunk_data)
    /\ UNCHANGED ssVars

\* The main loop with ClientMessage::QueryStatus.
ServeQueryStatus(transfer_id) ==
    /\ ReadMessage("QueryStatus")
    /\ HandleQueryStatus(transfer_id)
    /\ UNCHANGED ssVars

\* The main loop with a message of the last arm of handle_message, which
\* does nothing.
ServeOther(message) ==
    /\ message \in UnhandledMessages
    /\ ReadMessage(message)
    /\ UNCHANGED <<ftVars, ssVars>>

\* The connection is closed by the client: the loop ends, the connection is
\* taken out of active_connections and the session is removed.
ConnectionClosed ==
    /\ srvPc = "serving"
    /\ srvPc' = "closed"
    /\ srvActive' = srvActive \ {SrvConnId}
    /\ RemoveSession(srvSessionId[1])
    /\ UNCHANGED <<srvSessionId, srvRead, srvSent, ftVars>>

(***************************************************************************)
(* Specifications                                                          *)
(***************************************************************************)

vars == <<tbVars, clVars, hmVars, xfVars, scVars, decVars, srvVars, ssVars, ftVars, connVars, pktVars, rxVars, schedVars, hoVars, fbVars, fecVars>>

PktNext ==
    \/ Serialize /\ UNCHANGED <<rxVars, schedVars, hoVars, fbVars, fecVars, connVars, ftVars, ssVars, srvVars, decVars, scVars, xfVars, hmVars, clVars, tbVars>>
    \/ Deserialize /\ UNCHANGED <<rxVars, schedVars, hoVars, fbVars, fecVars, connVars, ftVars, ssVars, srvVars, decVars, scVars, xfVars, hmVars, clVars, tbVars>>

InitPacket == PktInit /\ RxIdle /\ SchedInit /\ HoInit /\ FbIdle /\ FecIdle /\ ConnIdle /\ FtIdle /\ SsInit /\ SrvInit /\ DecInit /\ ScInit /\ XfInit /\ HmIdle /\ ClInit /\ TbIdle

SpecPacket == InitPacket /\ [][PktNext]_vars

RxNext ==
    \E sequence \in 0..(MaxPackets - 1) :
        ReceiveData(sequence) /\ UNCHANGED <<pktVars, schedVars, hoVars, fbVars, fecVars, connVars, ftVars, ssVars, srvVars, decVars, scVars, xfVars, hmVars, clVars, tbVars>>

RxCleanupNext ==
    \/ \E sequence \in 0..(MaxPackets - 1) :
            ReceiveData(sequence) /\ UNCHANGED <<pktVars, schedVars, hoVars, fbVars, fecVars, connVars, ftVars, ssVars, srvVars, decVars, scVars, xfVars, hmVars, clVars, tbVars>>
    \/ \E sequence \in 0..(MaxPackets - 1) :
            ReceiveDuplicate(sequence)
                /\ UNCHANGED <<pktVars, schedVars, hoVars, fbVars, fecVars, connVars, ftVars, ssVars, srvVars, decVars, scVars, xfVars, hmVars, clVars, tbVars>>
    \/ \E n \in 1..MaxPackets :
            CleanupOldStreams(n) /\ UNCHANGED <<pktVars, schedVars, hoVars, fbVars, fecVars, connVars, ftVars, ssVars, srvVars, decVars, scVars, xfVars, hmVars, clVars, tbVars>>

InitReceiver == RxInit /\ PktIdle /\ SchedInit /\ HoInit /\ FbIdle /\ FecIdle /\ ConnIdle /\ FtIdle /\ SsInit /\ SrvInit /\ DecInit /\ ScInit /\ XfInit /\ HmIdle /\ ClInit /\ TbIdle

SpecReceiver == InitReceiver /\ [][RxNext]_vars

SchedNext ==
    \/ \E path \in SchedPaths, stats \in StatsChoices :
            UpdatePathStats(path, stats) /\ UNCHANGED <<pktVars, rxVars, hoVars, fbVars, fecVars, connVars, ftVars, ssVars, srvVars, decVars, scVars, xfVars, hmVars, clVars, tbVars>>
    \/ \E priority \in Priorities, path \in SchedPaths :
            \E path_preference \in {None, Some(path)} :
                Schedule(priority, path_preference) /\ UNCHANGED <<pktVars, rxVars, hoVars, fbVars, fecVars, connVars, ftVars, ssVars, srvVars, decVars, scVars, xfVars, hmVars, clVars, tbVars>>
    \/ NextPacket /\ UNCHANGED <<pktVars, rxVars, hoVars, fbVars, fecVars, connVars, ftVars, ssVars, srvVars, decVars, scVars, xfVars, hmVars, clVars, tbVars>>
    \/ \E max_packets \in 1..MaxBatch :
            GetMultipathBatch(max_packets) /\ UNCHANGED <<pktVars, rxVars, hoVars, fbVars, fecVars, connVars, ftVars, ssVars, srvVars, decVars, scVars, xfVars, hmVars, clVars, tbVars>>

InitScheduler == SchedInit /\ PktIdle /\ RxIdle /\ HoInit /\ FbIdle /\ FecIdle /\ ConnIdle /\ FtIdle /\ SsInit /\ SrvInit /\ DecInit /\ ScInit /\ XfInit /\ HmIdle /\ ClInit /\ TbIdle

SpecScheduler == InitScheduler /\ [][SchedNext]_vars

HoNext ==
    \/ \E path \in HoPaths :
            HoUpdatePathMetrics(path) /\ UNCHANGED <<pktVars, rxVars, schedVars, fbVars, fecVars, connVars, ftVars, ssVars, srvVars, decVars, scVars, xfVars, hmVars, clVars, tbVars>>
    \/ \E path \in HoPaths, sequence \in HoSequences, priority \in Priorities :
            TrackPacket(path, 1, sequence, priority) /\ UNCHANGED <<pktVars, rxVars, schedVars, fbVars, fecVars, connVars, ftVars, ssVars, srvVars, decVars, scVars, xfVars, hmVars, clVars, tbVars>>
    \/ \E path \in HoPaths, sequence \in HoSequences :
            HoMarkReceived(path, 1, sequence) /\ UNCHANGED <<pktVars, rxVars, schedVars, fbVars, fecVars, connVars, ftVars, ssVars, srvVars, decVars, scVars, xfVars, hmVars, clVars, tbVars>>
    \/ \E to_path \in HoPaths, reason \in HoReasons :
            PerformHandover(to_path, reason) /\ UNCHANGED <<pktVars, rxVars, schedVars, fbVars, fecVars, connVars, ftVars, ssVars, srvVars, decVars, scVars, xfVars, hmVars, clVars, tbVars>>

\* The manager called as time passes.
HoTimedNext ==
    \/ \E path \in HoPaths :
            HoUpdatePathMetrics(path) /\ UNCHANGED <<pktVars, rxVars, schedVars, fbVars, fecVars, connVars, ftVars, ssVars, srvVars, decVars, scVars, xfVars, hmVars, clVars, tbVars>>
    \/ \E to_path \in HoPaths, reason \in HoReasons :
            PerformHandover(to_path, reason) /\ UNCHANGED <<pktVars, rxVars, schedVars, fbVars, fecVars, connVars, ftVars, ssVars, srvVars, decVars, scVars, xfVars, hmVars, clVars, tbVars>>
    \/ HoElapse /\ UNCHANGED <<pktVars, rxVars, schedVars, fbVars, fecVars, connVars, ftVars, ssVars, srvVars, decVars, scVars, xfVars, hmVars, clVars, tbVars>>

HoMonitorNext ==
    \/ \E path \in HoPaths :
            \E metrics \in HoMetrics(path) :
                UpdatePathMetrics(path, metrics)
                    /\ UNCHANGED <<pktVars, rxVars, schedVars, fbVars, fecVars, connVars, ftVars, ssVars, srvVars, decVars, scVars, xfVars, hmVars, clVars, tbVars>>
    \/ \E path \in HoPaths :
            MonitorPath(path) /\ UNCHANGED <<pktVars, rxVars, schedVars, fbVars, fecVars, connVars, ftVars, ssVars, srvVars, decVars, scVars, xfVars, hmVars, clVars, tbVars>>

InitHandover == HoInit /\ PktIdle /\ RxIdle /\ SchedInit /\ FbIdle /\ FecIdle /\ ConnIdle /\ FtIdle /\ SsInit /\ SrvInit /\ DecInit /\ ScInit /\ XfInit /\ HmIdle /\ ClInit /\ TbIdle

SpecHandover == InitHandover /\ [][HoNext]_vars

SpecHandoverMonitor == InitHandover /\ [][HoMonitorNext]_vars

SpecHandoverTimed == InitHandover /\ [][HoTimedNext]_vars

FbOther == UNCHANGED <<pktVars, rxVars, schedVars, hoVars, fecVars, connVars, ftVars, ssVars, srvVars, decVars, scVars, xfVars, hmVars, clVars, tbVars>>

\* The calls of the manager made one at a time: a caller runs a statement
\* only while no other caller is inside a call.
FallbackNext ==
    \/ \E t \in Threads : InCall \subseteq {t} /\ FbStep(t) /\ FbOther
    \/ \E strategy \in Strategies : InCall = {} /\ SetStrategy(strategy) /\ FbOther
    \/ \E instant \in ClockInstants : Tick(instant) /\ FbOther

\* The calls of the manager made from concurrent callers: the statements of
\* the calls interleave, each under the lock it takes.
FallbackConcurrentNext ==
    \/ \E t \in Threads : FbStep(t) /\ FbOther
    \/ \E strategy \in Strategies : SetStrategy(strategy) /\ FbOther
    \/ \E instant \in ClockInstants : Tick(instant) /\ FbOther

InitFallback == FbInit /\ PktIdle /\ RxIdle /\ SchedInit /\ HoInit /\ FecIdle /\ ConnIdle /\ FtIdle /\ SsInit /\ SrvInit /\ DecInit /\ ScInit /\ XfInit /\ HmIdle /\ ClInit /\ TbIdle

SpecFallback == InitFallback /\ [][FallbackNext]_vars

SpecFallbackConcurrent == InitFallback /\ [][FallbackConcurrentNext]_vars

FecNext ==
    \/ FecEncode /\ UNCHANGED <<pktVars, rxVars, schedVars, hoVars, fbVars, connVars, ftVars, ssVars, srvVars, decVars, scVars, xfVars, hmVars, clVars, tbVars>>
    \/ \E shard_index \in Arriving :
            FecAddShard(shard_index) /\ UNCHANGED <<pktVars, rxVars, schedVars, hoVars, fbVars, connVars, ftVars, ssVars, srvVars, decVars, scVars, xfVars, hmVars, clVars, tbVars>>
    \/ FecDecode /\ UNCHANGED <<pktVars, rxVars, schedVars, hoVars, fbVars, connVars, ftVars, ssVars, srvVars, decVars, scVars, xfVars, hmVars, clVars, tbVars>>

InitFec == FecInit /\ PktIdle /\ RxIdle /\ SchedInit /\ HoInit /\ FbIdle /\ ConnIdle /\ FtIdle /\ SsInit /\ SrvInit /\ DecInit /\ ScInit /\ XfInit /\ HmIdle /\ ClInit /\ TbIdle

SpecReceiverCleanup == InitReceiver /\ [][RxCleanupNext]_vars

RxFecNext ==
    \E shard_index \in 0..5 :
        ReceiveShard(shard_index)
            /\ UNCHANGED <<pktVars, schedVars, hoVars, fbVars, fecVars, connVars, ftVars, ssVars, srvVars, decVars, scVars, xfVars, hmVars, clVars, tbVars>>

InitReceiverFec ==
    RxFecInit /\ PktIdle /\ SchedInit /\ HoInit /\ FbIdle /\ FecIdle /\ ConnIdle /\ FtIdle /\ SsInit /\ SrvInit /\ DecInit /\ ScInit /\ XfInit /\ HmIdle /\ ClInit /\ TbIdle

SpecReceiverFec == InitReceiverFec /\ [][RxFecNext]_vars

SpecFec == InitFec /\ [][FecNext]_vars

InitFecXor == FecXorInit /\ PktIdle /\ RxIdle /\ SchedInit /\ HoInit /\ FbIdle /\ ConnIdle /\ FtIdle /\ SsInit /\ SrvInit /\ DecInit /\ ScInit /\ XfInit /\ HmIdle /\ ClInit /\ TbIdle

SpecFecXor == InitFecXor /\ [][FecNext]_vars

ConnNext ==
    \/ ConnSend /\ UNCHANGED <<pktVars, rxVars, schedVars, hoVars, fbVars, fecVars, ftVars, ssVars, srvVars, decVars, scVars, xfVars, hmVars, clVars, tbVars>>
    \/ \E shard_index \in 0..19 :
            ConnRecv(shard_index)
                /\ UNCHANGED <<pktVars, rxVars, schedVars, hoVars, fbVars, fecVars, ftVars, ssVars, srvVars, decVars, scVars, xfVars, hmVars, clVars, tbVars>>

InitConnection ==
    ConnInit /\ PktIdle /\ RxIdle /\ SchedInit /\ HoInit /\ FbIdle /\ FecIdle /\ FtIdle /\ SsInit /\ SrvInit /\ DecInit /\ ScInit /\ XfInit /\ HmIdle /\ ClInit /\ TbIdle

SpecConnection == InitConnection /\ [][ConnNext]_vars

FtOther == UNCHANGED <<pktVars, rxVars, schedVars, hoVars, fbVars, fecVars, connVars, ssVars, srvVars, decVars, scVars, xfVars, hmVars, clVars, tbVars>>

\* The messages of one client, handled one after the other.
FtNext ==
    \/ \E transfer_id \in FtTransferIds, with_hash \in BOOLEAN :
            \E resume_offset \in ResumeOffsets(ftFile) :
                HandleStartTransfer(StartTransferRequest(transfer_id, ftFile, with_hash,
                                                         resume_offset)) /\ FtOther
    \/ \E transfer_id \in FtTransferIds, damaged \in BOOLEAN :
            \E chunk_index \in 0..ChunksTotal(Len(ftFile)) :
                HandleSendChunk(ChunkData(transfer_id, ftFile, chunk_index, damaged)) /\ FtOther
    \/ \E transfer_id \in FtTransferIds :
            HandleQueryStatus(transfer_id) /\ FtOther

InitFileTransfer ==
    FtInit /\ PktIdle /\ RxIdle /\ SchedInit /\ HoInit /\ FbIdle /\ FecIdle /\ ConnIdle /\ SsInit /\ SrvInit /\ DecInit /\ ScInit /\ XfInit /\ HmIdle /\ ClInit /\ TbIdle

SpecFileTransfer == InitFileTransfer /\ [][FtNext]_vars

SsOther == UNCHANGED <<pktVars, rxVars, schedVars, hoVars, fbVars, fecVars, connVars, ftVars, srvVars, decVars, scVars, xfVars, hmVars, clVars, tbVars>>

SessionNext ==
    \/ \E instant \in SsInstants : SsTick(instant) /\ SsOther
    \/ \E session_id \in SessionIds : CreateSession(session_id) /\ SsOther
    \/ \E session_id \in SessionIds : GetSession(session_id) /\ SsOther
    \/ \E session_id \in SessionIds : SsUpdateActivity(session_id) /\ SsOther
    \/ \E session_id \in SessionIds, transfer_id \in FtTransferIds :
            AddTransfer(session_id, transfer_id) /\ SsOther
    \/ \E session_id \in SessionIds : RemoveSession(session_id) /\ SsOther
    \/ CleanupExpired /\ SsOther

InitSession ==
    SsInit /\ PktIdle /\ RxIdle /\ SchedInit /\ HoInit /\ FbIdle /\ FecIdle /\ ConnIdle /\ FtIdle /\ SrvInit /\ DecInit /\ ScInit /\ XfInit /\ HmIdle /\ ClInit /\ TbIdle

SpecSession == InitSession /\ [][SessionNext]_vars

(***************************************************************************)

SrvOther == UNCHANGED <<pktVars, rxVars, schedVars, hoVars, fbVars, fecVars, connVars, decVars, scVars, xfVars, hmVars, clVars, tbVars>>

\* One connection served from its handshake to its close.
ServerNext ==
    \/ \E message \in HandshakeMessages, is_authenticated \in BOOLEAN :
            HandleConnectionHandshake(message, is_authenticated) /\ SrvOther
    \/ HandleConnectionNoHandshake /\ SrvOther
    \/ HandleConnectionAcceptNotSent /\ SrvOther
    \/ \E transfer_id \in FtTransferIds, with_hash \in BOOLEAN :
            ServeStartTransfer(StartTransferRequest(transfer_id, ftFile, with_hash, None))
                /\ SrvOther
    \/ \E transfer_id \in FtTransferIds, chunk_index \in 0..ChunksTotal(Len(ftFile)) :
            ServeSendChunk(ChunkData(transfer_id, ftFile, chunk_index, FALSE)) /\ SrvOther
    \/ \E transfer_id \in FtTransferIds :
            ServeQueryStatus(transfer_id) /\ SrvOther
    \/ \E message \in UnhandledMessages :
            ServeOther(message) /\ SrvOther
    \/ ConnectionClosed /\ SrvOther

InitServer ==
    SrvInit /\ FtInit /\ SsInit /\ PktIdle /\ RxIdle /\ SchedInit /\ HoInit /\ FbIdle /\ FecIdle /\ ConnIdle /\ DecInit /\ ScInit /\ XfInit /\ HmIdle /\ ClInit /\ TbIdle

SpecServer == InitServer /\ [][ServerNext]_vars

\* Buffers that arrive whole or cut short.
PktBufferNext ==
    \/ Serialize /\ UNCHANGED <<rxVars, schedVars, hoVars, fbVars, fecVars, connVars, ftVars, ssVars, srvVars, decVars, scVars, xfVars, hmVars, clVars, tbVars>>
    \/ \E len \in BufferLengths :
            Truncate(len) /\ UNCHANGED <<rxVars, schedVars, hoVars, fbVars, fecVars, connVars, ftVars, ssVars, srvVars, decVars, scVars, xfVars, hmVars, clVars, tbVars>>
    \/ Deserialize /\ UNCHANGED <<rxVars, schedVars, hoVars, fbVars, fecVars, connVars, ftVars, ssVars, srvVars, decVars, scVars, xfVars, hmVars, clVars, tbVars>>

InitPacketBuffer ==
    PktBufferInit /\ RxIdle /\ SchedInit /\ HoInit /\ FbIdle /\ FecIdle /\ ConnIdle /\ FtIdle /\ SsInit /\ SrvInit /\ DecInit /\ ScInit /\ XfInit /\ HmIdle /\ ClInit /\ TbIdle

SpecPacketBuffer == InitPacketBuffer /\ [][PktBufferNext]_vars

DecOther ==
    UNCHANGED <<pktVars, rxVars, schedVars, hoVars, fbVars, fecVars, connVars, ftVars, ssVars, srvVars, scVars, xfVars, hmVars, clVars, tbVars>>

\* Shards arriving at a decoder whose owner calls cleanup_old_blocks.
DecoderCleanupNext ==
    \/ \E block_id \in 1..MaxBlockIds, shard_index \in DecShardIndexes :
            DecoderAddShard(block_id, shard_index) /\ DecOther
    \/ CleanupOldBlocks /\ DecOther

InitDecoder ==
    DecInit /\ PktIdle /\ RxIdle /\ SchedInit /\ HoInit /\ FbIdle /\ FecIdle /\ ConnIdle /\ FtIdle /\ SsInit /\ SrvInit /\ ScInit /\ XfInit /\ HmIdle /\ ClInit /\ TbIdle

SpecDecoderCleanup == InitDecoder /\ [][DecoderCleanupNext]_vars

ScOther ==
    UNCHANGED <<pktVars, rxVars, schedVars, hoVars, fbVars, fecVars, connVars, ssVars, srvVars, decVars, xfVars, hmVars, clVars, tbVars>>

\* A transfer started once and its chunks stored by tasks that run at the
\* same time.
StoreChunkNext ==
    \/ \E transfer_id \in FtTransferIds, resume_offset \in ResumeOffsets(ftFile) :
            StartTransfer(FileTransferRequest(
                StartTransferRequest(transfer_id, ftFile, TRUE, resume_offset))) /\ ScOther
    \/ \E t \in Threads, transfer_id \in FtTransferIds :
            \E chunk_index \in 0..(ChunksTotal(Len(ftFile)) - 1) :
                StoreChunkCheck(t, transfer_id, chunk_index, ChunkOf(ftFile, chunk_index))
                    /\ ScOther
    \/ \E t \in Threads : StoreChunkWrite(t) /\ ScOther
    \/ \E t \in Threads : StoreChunkUpdate(t) /\ ScOther
    \/ \E t \in Threads : StoreChunkRecord(t) /\ ScOther

InitStoreChunk ==
    ScInit /\ FtInit /\ PktIdle /\ RxIdle /\ SchedInit /\ HoInit /\ FbIdle /\ FecIdle /\ ConnIdle /\ SsInit /\ SrvInit /\ DecInit /\ XfInit /\ HmIdle /\ ClInit /\ TbIdle

SpecStoreChunk == InitStoreChunk /\ [][StoreChunkNext]_vars

XfOther ==
    UNCHANGED <<pktVars, rxVars, schedVars, hoVars, fbVars, fecVars, connVars, ssVars, srvVars, decVars, scVars, hmVars, clVars, tbVars>>

\* One client sending one file to the server.
TransferRunNext ==
    \/ TransferFileStart /\ XfOther
    \/ TransferFileAccepted /\ XfOther
    \/ SendFileChunk /\ XfOther
    \/ ReceiveForChunk /\ XfOther
    \/ ServerHandlesMessage /\ XfOther

InitTransferRun ==
    XfInit /\ ftFile \in XfFiles /\ ftTransfers = <<>> /\ ftChunkStorage = <<>> /\ ftTempFiles = <<>> /\ ftStoredFiles = <<>> /\ ftReplies = <<>> /\ PktIdle /\ RxIdle /\ SchedInit /\ HoInit /\ FbIdle /\ FecIdle /\ ConnIdle /\ SsInit /\ SrvInit /\ DecInit /\ ScInit /\ HmIdle /\ ClInit /\ TbIdle

SpecTransferRun == InitTransferRun /\ [][TransferRunNext]_vars

HmOther ==
    UNCHANGED <<pktVars, rxVars, schedVars, hoVars, fbVars, fecVars, connVars, ftVars, ssVars, srvVars, decVars, scVars, xfVars, clVars, tbVars>>

\* Tasks calling check_handover on one HandoverManager.
HandoverToNext ==
    \/ \E t \in HmTasks, new_path \in NetworkPaths : HandoverToReadCurrent(t, new_path) /\ HmOther
    \/ \E t \in HmTasks : HandoverToCheckInProgress(t) /\ HmOther
    \/ \E t \in HmTasks : HandoverToUpdateCurrent(t) /\ HmOther
    \/ \E t \in HmTasks : HandoverToUpdateLast(t) /\ HmOther
    \/ \E t \in HmTasks : HandoverToMarkComplete(t) /\ HmOther
    \/ \E t \in HmTasks : CheckHandoverSend(t) /\ HmOther

InitHandoverTo ==
    HmInit /\ HoInit /\ PktIdle /\ RxIdle /\ SchedInit /\ FbIdle /\ FecIdle /\ ConnIdle /\ FtIdle /\ SsInit /\ SrvInit /\ DecInit /\ ScInit /\ XfInit /\ ClInit /\ TbIdle

SpecHandoverTo == InitHandoverTo /\ [][HandoverToNext]_vars

ClOther ==
    UNCHANGED <<pktVars, rxVars, schedVars, hoVars, fbVars, fecVars, connVars, ssVars, srvVars, decVars, scVars, xfVars, hmVars, tbVars>>

\* A server handling one client's messages while a task calls
\* cleanup_incomplete; handle_message needs the locks of the handler.
CleanupNext ==
    \/ \E transfer_id \in FtTransferIds, with_hash \in BOOLEAN :
            /\ clLocks = {}
            /\ HandleStartTransfer(StartTransferRequest(transfer_id, ftFile, with_hash, None))
            /\ UNCHANGED clVars /\ ClOther
    \/ \E transfer_id \in FtTransferIds, chunk_index \in 0..(ChunksTotal(Len(ftFile)) - 1) :
            /\ clLocks = {}
            /\ HandleSendChunk(ChunkData(transfer_id, ftFile, chunk_index, FALSE))
            /\ UNCHANGED clVars /\ ClOther
    \/ \E old \in SUBSET FtTransferIds : CleanupIncompleteCollect(old) /\ ClOther
    \/ CleanupIncompleteTakeChunks /\ ClOther
    \/ CleanupIncompleteRemoveFile /\ ClOther
    \/ CleanupIncompleteFileRemoved /\ ClOther
    \/ CleanupIncompleteRemoveTransfer /\ ClOther

InitCleanup ==
    ClInit /\ FtInit /\ PktIdle /\ RxIdle /\ SchedInit /\ HoInit /\ FbIdle /\ FecIdle /\ ConnIdle /\ SsInit /\ SrvInit /\ DecInit /\ ScInit /\ XfInit /\ HmIdle /\ TbIdle

SpecCleanup == InitCleanup /\ [][CleanupNext]_vars

TbOther ==
    UNCHANGED <<pktVars, rxVars, schedVars, hoVars, fbVars, fecVars, connVars, ftVars, ssVars, srvVars, decVars, scVars, xfVars, hmVars, clVars>>

\* Calls of add and pop on one TelemetryBuffer.
TelemetryBufferNext ==
    \/ \E priority \in TbPriorities : TbAdd(priority) /\ TbOther
    \/ TbPop /\ TbOther
    \/ TbTick /\ TbOther

InitTelemetryBuffer ==
    TbInit /\ FtIdle /\ PktIdle /\ RxIdle /\ SchedInit /\ HoInit /\ FbIdle /\ FecIdle /\ ConnIdle /\ SsInit /\ SrvInit /\ DecInit /\ ScInit /\ XfInit /\ HmIdle /\ ClInit

SpecTelemetryBuffer == InitTelemetryBuffer /\ [][TelemetryBufferNext]_vars

(***************************************************************************)
(* Claims                                                                  *)
(***************************************************************************)

RECURSIVE Flatten(_)
Flatten(chunks) == IF chunks = <<>> THEN <<>> ELSE chunks[1] \o Flatten(Tail(chunks))

RECURSIVE PayloadsUpTo(_)
PayloadsUpTo(n) == IF n = 0 THEN <<>> ELSE PayloadsUpTo(n - 1) \o PayloadOf(n - 1)

IsPrefix(s, t) == Len(s) <= Len(t) /\ SubSeq(t, 1, Len(s)) = s

\* C1: for any arrival order of the Data packets with sequences 0..n-1 of a
\* single stream, the receiver delivers the payload of every sequence exactly
\* once and in ascending sequence order: what has been delivered is always a
\* prefix of payload(0) payload(1) ... payload(n-1), and is all of it once
\* every packet has arrived.
C1_DeliversEverySequenceInOrder ==
    /\ IsPrefix(Flatten(rxDelivered), PayloadsUpTo(rxCount))
    /\ rxPending = {} => Flatten(rxDelivered) = PayloadsUpTo(rxCount)

\* C2: for every payload p and every sequence, fec_block_id, shard_index and
\* total_shards, from_bytes(new_data(.., p).to_bytes()) succeeds and returns a
\* packet with the same header fields and payload p whose checksum verifies.
C2_RoundTripReturnsThePacket ==
    parsed # None =>
        /\ parsed[1].tag = "Ok"
        /\ parsed[1].packet.header = pkt.header
        /\ parsed[1].packet.data = pkt.data
        /\ Verify(parsed[1].packet)

\* The health gate of a priority: the rtt, loss and queue depth a path must
\* stay under to carry a packet of that priority.
HealthGate(stats, priority) ==
    CASE priority = "Critical" ->
            ~(stats.rtt_ms >= 100 \/ stats.loss_rate >= 50 \/ stats.queue_depth >= 100)
      [] priority = "High" ->
            ~(stats.rtt_ms >= 200 \/ stats.loss_rate >= 70 \/ stats.queue_depth >= 200)
      [] priority = "Medium" ->
            ~(stats.rtt_ms >= 500 \/ stats.loss_rate >= 100 \/ stats.queue_depth >= 500)
      [] priority = "Bulk" ->
            ~(stats.loss_rate >= 150)

\* A get_multipath_batch call that returns to its caller.
BatchCallReturns ==
    /\ \E max_packets \in 1..MaxBatch : GetMultipathBatch(max_packets)
    /\ ~schedHung'

\* C3: every (packet, path) pair returned by next_packet or
\* get_multipath_batch has a path that is in the table and passes the health
\* gate of the packet's priority at the time of the call; a Critical packet is
\* never returned with a path whose rtt is >= 100 ms, loss >= 5 % or queue
\* depth >= 100.
C3_ReturnedPathPassesGate ==
    [][(NextPacket \/ BatchCallReturns) =>
          \A i \in DOMAIN schedOut' :
              /\ schedOut'[i].path \in DOMAIN schedPaths
              /\ HealthGate(schedPaths[schedOut'[i].path], schedOut'[i].packet.priority)]_vars

\* C3 witness: a Critical packet was returned on a path other than the one it
\* prefers, and the preferred path is in the table and fails the Critical gate.
C3_Witness ==
    \E i \in DOMAIN schedOut :
        LET packet == schedOut[i].packet
        IN  /\ packet.priority = "Critical"
            /\ packet.path_preference # None
            /\ packet.path_preference[1] # schedOut[i].path
            /\ packet.path_preference[1] \in DOMAIN schedPaths
            /\ ~HealthGate(schedPaths[packet.path_preference[1]], "Critical")
            /\ HealthGate(schedPaths[schedOut[i].path], "Critical")

PriorityRank(priority) == CHOOSE i \in 1..4 : <<"Critical", "High", "Medium", "Bulk">>[i] = priority

\* The priorities whose queue holds a packet and for which a path passes the gate.
Servable ==
    {priority \in Priorities :
        /\ schedQueues[priority] # <<>>
        /\ \E path \in DOMAIN schedPaths : HealthGate(schedPaths[path], priority)}

\* C4: dequeue is strictly priority ordered (Critical > High > Medium > Bulk):
\* next_packet returns the head of the highest-priority queue that holds a
\* packet for which a healthy path exists, never a lower-priority packet; it
\* returns nothing only when no queue holds such a packet.
C4_StrictPriorityOrder ==
    [][NextPacket =>
          IF Servable = {} THEN schedOut' = <<>>
          ELSE LET first == CHOOSE priority \in Servable :
                                \A other \in Servable :
                                    PriorityRank(priority) <= PriorityRank(other)
               IN  /\ Len(schedOut') = 1
                   /\ schedOut'[1].packet = Head(schedQueues[first])]_vars

\* C4 witness: a Critical and a Bulk packet with identical preferences were
\* queued, both paths are healthy for both priorities, next_packet has
\* returned the Critical packet and the Bulk packet is still queued.
C4_Witness ==
    /\ Len(schedOut) = 1
    /\ schedOut[1].packet.priority = "Critical"
    /\ schedQueues["Bulk"] # <<>>
    /\ Head(schedQueues["Bulk"]).path_preference = schedOut[1].packet.path_preference
    /\ Head(schedQueues["Bulk"]).sequence < schedOut[1].packet.sequence
    /\ DOMAIN schedPaths = SchedPaths
    /\ \A path \in SchedPaths :
           HealthGate(schedPaths[path], "Critical") /\ HealthGate(schedPaths[path], "Bulk")

\* The number of in-flight records with a given stream, sequence and
\* priority, over all paths.
RECURSIVE CountRecord(_, _, _, _)
CountRecord(in_flight, paths, sequence, priority) ==
    IF paths = {} THEN 0
    ELSE LET path == CHOOSE x \in paths : TRUE
             here == PacketsOn(in_flight, path)
         IN  Cardinality({i \in DOMAIN here : /\ here[i].sequence = sequence
                                                /\ here[i].priority = priority
                                                /\ here[i].stream_id = 1})
             + CountRecord(in_flight, paths \ {path}, sequence, priority)

SomeHandover == \E to_path \in HoPaths, reason \in HoReasons : PerformHandover(to_path, reason)

\* C5: after perform_handover from path A to path B, for any mix of
\* priorities among the tracked packets, zero in-flight records remain on A
\* and the number of records on B has grown by exactly the number that were
\* on A before the handover.
C5_HandoverRelocatesEveryRecord ==
    [][(SomeHandover /\ hoCurrent' # hoCurrent) =>
          /\ Len(PacketsOn(hoInFlight', hoCurrent)) = 0
          /\ Len(PacketsOn(hoInFlight', hoCurrent')) =
                 Len(PacketsOn(hoInFlight, hoCurrent')) + Len(PacketsOn(hoInFlight, hoCurrent))]_vars

\* C6: the coordinator never drops a packet: across any perform_handover call
\* (any from/to pair, to equal to the current path included) the multiset of
\* tracked records (stream_id, sequence, priority) over all paths is
\* unchanged, and every record is filed under the path it is tagged with.
C6_HandoverKeepsEveryRecord ==
    [][SomeHandover =>
          /\ \A sequence \in HoSequences, priority \in Priorities :
                 CountRecord(hoInFlight', HoPaths, sequence, priority)
                     = CountRecord(hoInFlight, HoPaths, sequence, priority)
          /\ \A path \in DOMAIN hoInFlight' : \A i \in DOMAIN hoInFlight'[path] :
                 hoInFlight'[path][i].path = path]_vars

\* C6 witness: handovers have moved priority and bulk records, one of them a
\* handover to the path that was already current, and records of every kind
\* of priority are still tracked.
C6_Witness ==
    /\ \E i \in DOMAIN hoEvents :
           hoEvents[i].from_path = hoEvents[i].to_path /\ hoEvents[i].bulk_streams_moved > 0
    /\ \E i \in DOMAIN hoEvents :
           hoEvents[i].from_path # hoEvents[i].to_path /\ hoEvents[i].bulk_streams_moved > 0
    /\ TotalLen(hoInFlight, HoPaths) = MaxInFlight


\* The order of the states from richest to poorest.
FbRank(state) ==
    CASE state = "FullExperimental" -> 0
      [] state = "QuicWithFec" -> 1
      [] state = "QuicBasic" -> 2
      [] state = "TcpFallback" -> 3
      [] state = "MinimalFallback" -> 4

\* A statement of a report_failure call whose strategy is Automatic.
AutomaticReportStep(t) ==
    /\ FbStep(t)
    /\ \/ fbCall[t].op = "report_failure" /\ fbCall[t].strategy = "Automatic"
       \/ fbCall'[t].op = "report_failure" /\ fbCall'[t].strategy = "Automatic"

\* C7: under strategy Automatic, for every current state and every failure
\* reason, report_failure leaves the state unchanged or moves it to a state
\* strictly closer to MinimalFallback; it never moves it toward
\* FullExperimental.
C7_AutomaticFailureNeverUpgrades ==
    [][\A t \in Threads : AutomaticReportStep(t) =>
           \/ fbState' = fbState
           \/ FbRank(fbState') > FbRank(fbState)]_vars

\* C7 witness: a failure reported under Automatic has taken the manager from
\* TcpFallback to MinimalFallback, and the call has returned the new state.
C7_Witness ==
    /\ fbStrategy = "Automatic"
    /\ fbReturned = <<"report_failure", Some("MinimalFallback")>>
    /\ fbState = "MinimalFallback"
    /\ fbHistory # <<>>
    /\ fbHistory[Len(fbHistory)].from_state = "TcpFallback"
    /\ fbHistory[Len(fbHistory)].reason = "ConnectionFailure"

\* C8: under any interleaving of concurrent report_failure, manual_fallback
\* and try_recover calls the transitions are totally ordered: each recorded
\* event's from-state is the to-state of the event recorded before it (the
\* initial state for the first), and once no transition is in progress the
\* current state is the to-state of the last recorded event.
C8_TransitionsTotallyOrdered ==
    /\ \A i \in DOMAIN fbHistory :
           fbHistory[i].from_state =
               IF i = 1 THEN "FullExperimental" ELSE fbHistory[i - 1].to_state
    /\ InCall = {} =>
           fbState = IF fbHistory = <<>> THEN "FullExperimental"
                     ELSE fbHistory[Len(fbHistory)].to_state

\* A failure was recorded at a state less than 60 s ago.
RecentFailureAt(state) ==
    state \in DOMAIN fbLastFailure /\ fbNow - fbLastFailure[state] < 60

\* C9: try_recover returns "no change" and leaves the state untouched
\* whenever the state one step richer than the current one has a recorded
\* failure within the cooldown window of 60 s; when it does change the state
\* it moves up exactly one step.
C9_RecoveryHonoursCooldown ==
    [][\A t \in Threads :
           /\ (/\ TryRecoverCheckCooldown(t)
               /\ \E target \in States : /\ FbRank(target) = FbRank(fbState) - 1
                                         /\ RecentFailureAt(target))
                  => /\ fbReturned' = <<"try_recover", None>>
                     /\ fbCall'[t].pc = "idle"
                     /\ fbState' = fbState
                     /\ fbHistory' = fbHistory
           /\ (FbStep(t) /\ fbCall[t].op = "try_recover" /\ fbState' # fbState)
                  => FbRank(fbState') = FbRank(fbState) - 1]_vars

\* C9 witness: a failure was reported at FullExperimental, the manager fell
\* back to QuicWithFec, and a try_recover made 59 s after the failure has
\* returned "no change".
C9_Witness ==
    /\ fbReturned = <<"try_recover", None>>
    /\ fbState = "QuicWithFec"
    /\ fbNow = 59
    /\ RecentFailureAt("FullExperimental")
    /\ Len(fbHistory) = 1
    /\ InCall = {}


\* What the claim asks of a step: the encoder's call has returned
\* data_shards data shards and parity_shards parity shards, and the decoder's
\* call made with data_shards distinct shards of the block handed to it has
\* returned a buffer whose first len(p) bytes are the payload p.
BlockRecovers ==
    /\ FecEncode =>
           /\ fecEncoded'[1].tag = "Ok"
           /\ Len(fecEncoded'[1].value.data) = fecConfig.data_shards
           /\ Len(fecEncoded'[1].value.parity) = fecConfig.parity_shards
    /\ (FecDecode /\ Cardinality(DOMAIN fecBlock[1].received_shards) = fecConfig.data_shards)
           => /\ fecReturned'[1].tag = "Ok"
              /\ fecReturned'[1].value # None
              /\ Len(fecReturned'[1].value[1]) >= Len(fecPayload)
              /\ SubSeq(fecReturned'[1].value[1], 1, Len(fecPayload)) = fecPayload

\* C10 as stated: for every Reed-Solomon preset (k, r) and every payload p,
\* encoding produces k+r shards such that feeding any k distinct shards of
\* the block to the decoder yields a buffer whose first len(p) bytes equal p.
C10_AnyKShardsRecoverEveryPayload == [][BlockRecovers]_vars

\* C10 restricted to non-empty payloads, the part of it the code keeps: for
\* every Reed-Solomon preset (k, r) and every non-empty payload p, encoding
\* produces k+r shards such that feeding any k distinct shards of the block to
\* the decoder yields a buffer whose first len(p) bytes equal p.
C10_AnyKShardsRecoverNonEmptyPayload == [][fecPayload # <<>> => BlockRecovers]_vars

\* The non-empty case at work: a 17-byte payload of the (16, 4) preset, four of whose data
\* shards were lost, has been decoded from the other sixteen shards.
C10_Witness ==
    /\ fecConfig = [data_shards |-> 16, parity_shards |-> 4]
    /\ Len(fecPayload) = 17
    /\ fecLost = {0, 1, 5, 15}
    /\ fecBlock # None
    /\ Cardinality(DOMAIN fecBlock[1].received_shards) = 16
    /\ fecReturned = Some(Ok(Some(fecPayload)))


\* The data shards among the lost ones, and the parity shards that arrive.
LostData == fecLost \cap (0..(fecConfig.data_shards - 1))
ParityArriving ==
    (fecConfig.data_shards..(fecConfig.data_shards + fecConfig.parity_shards - 1)) \ fecLost

\* C11: with the XOR algorithm and one parity shard, a block that lost any
\* single data shard decodes to the original payload once its other shards
\* were received, and a block that lost two data shards is not recovered:
\* decode returns no payload.
C11_XorOneParityRecoversOneLossOnly ==
    [][(FecDecode /\ fecAlgorithm = "Xor" /\ fecConfig.parity_shards = 1) =>
          /\ (Cardinality(fecLost) = 1 /\ Cardinality(LostData) = 1 /\ Arriving = {})
                 => fecReturned' = Some(Ok(Some(fecPayload)))
          /\ Cardinality(LostData) = 2 => fecReturned' = Some(Ok(None))]_vars

\* C11 witness: a non-empty payload of a block with one parity shard, whose
\* data shard 1 was lost, has been decoded from the other shards.
C11_Witness ==
    /\ fecAlgorithm = "Xor"
    /\ fecConfig = [data_shards |-> 4, parity_shards |-> 1]
    /\ fecPayload # <<>>
    /\ fecLost = {1}
    /\ fecBlock # None
    /\ fecBlock[1].received_count = 4
    /\ fecReturned = Some(Ok(Some(fecPayload)))

\* C12: with the XOR algorithm under any preset (k, r), a block that is
\* missing exactly one data shard and received one or more of its r parity
\* shards decodes to the original payload.
C12_XorRecoversOneLossUnderAnyPreset ==
    [][(/\ FecDecode
        /\ fecAlgorithm = "Xor"
        /\ fecConfig \in FecPresets
        /\ Cardinality(LostData) = 1
        /\ ParityArriving # {}
        /\ Arriving = {})
          => fecReturned' = Some(Ok(Some(fecPayload)))]_vars

\* The number of times a byte occurs in a sequence of bytes.
RECURSIVE Occurrences(_, _)
Occurrences(bytes, b) ==
    IF bytes = <<>> THEN 0
    ELSE (IF Head(bytes) = b THEN 1 ELSE 0) + Occurrences(Tail(bytes), b)

C14_BlockDeliveredExactlyOnce ==
    /\ Len(connDelivered) <= 1
    /\ (connSent # None /\ connPending = {}) => Len(connDelivered) = 1
    /\ \A i \in DOMAIN connDelivered : IsPrefix(connPayload, connDelivered[i])

\* C15: with Reed-Solomon k = 4, r = 2, when the receiver gets only data
\* shards 1 and 3 and parity shards 4 and 5 of a block, the decoder
\* reconstructs the original payload, the missing data is delivered, and the
\* fec_recovered counter is at least 2.
C15_DroppedShardsAreRecovered ==
    (rxDropped = {0, 2} /\ rxShards = {} /\ rxFecBlock # None) =>
        /\ rxFecBlock[1].decoded = Some(RxFecPayload)
        /\ rxDelivered # <<>>
        /\ fec_recovered >= 2

\* The round-trip times in the window of a path, oldest first.
RttsOf(path) ==
    IF path \in DOMAIN hoHistory
    THEN [i \in DOMAIN hoHistory[path].rtt_samples |-> hoHistory[path].rtt_samples[i].value]
    ELSE <<>>

TenThenSpike == <<30, 30, 30, 30, 30, 30, 30, 30, 30, 30, 100>>

\* C16: with the paths WiFi (current) and FiveG both at a 30 ms baseline,
\* after WiFi has observed ten samples of 30 ms and then one of 100 ms, the
\* coordinator decides a handover to FiveG with reason RttSpike and exactly
\* one event WiFi -> FiveG, RttSpike is recorded.
C16_RttSpikeHandsOver ==
    (/\ RttsOf("WiFi") = TenThenSpike
     /\ RttsOf("FiveG") = <<30>>
     /\ hoDecision # NotCalled) =>
        /\ hoDecision = Returned(Some(<<"FiveG", "RttSpike">>))
        /\ Len(hoEvents) = 1
        /\ hoEvents[1].from_path = "WiFi"
        /\ hoEvents[1].to_path = "FiveG"
        /\ hoEvents[1].reason = "RttSpike"

\* A spike that does hand over: the other path has the lower baseline.
HandoverOnSpikeReached ==
    /\ RttsOf("WiFi") = TenThenSpike
    /\ RttsOf("FiveG") = <<10>>
    /\ hoDecision = Returned(Some(<<"FiveG", "RttSpike">>))
    /\ Len(hoEvents) = 1

\* The handover to a path has just been performed: the path is the current
\* one and the last event recorded is a handover to it from another path.
JustHandedOverTo(to_path) ==
    /\ hoCurrent = to_path
    /\ hoEvents # <<>>
    /\ hoEvents[Len(hoEvents)].to_path = to_path
    /\ hoEvents[Len(hoEvents)].from_path # to_path

\* C20: performing the handover to a path a second time leaves the same
\* final state (current path, per-path in-flight records and recorded
\* handover events) as performing it once.  The manager keeps no cooldown, so
\* every second call is within it.
C20_SecondHandoverChangesNothing ==
    [][\A to_path \in HoPaths, reason \in HoReasons :
          (JustHandedOverTo(to_path) /\ PerformHandover(to_path, reason)) =>
              UNCHANGED <<hoCurrent, hoInFlight, hoEvents>>]_vars

\* The chunk file of a chunk of the client's file is in the temp directory,
\* with the bytes the client cut.
ChunkOnDisk(transfer_id, chunk_index) ==
    /\ ChunkPath(transfer_id, chunk_index) \in DOMAIN ftTempFiles
    /\ ftTempFiles[ChunkPath(transfer_id, chunk_index)] = ChunkOf(ftFile, chunk_index)

\* The transfer was restarted with resume_offset = 2 * chunk_size after the
\* chunks 0 and 1 were stored, and since then the client has sent chunk 2 and
\* nothing else; the server has just handled that chunk.
ResumedWithLastChunk(transfer_id) ==
    /\ transfer_id \in DOMAIN ftTransfers
    /\ ftTransfers[transfer_id].chunks_total = 3
    /\ ftTransfers[transfer_id].chunks_received = {2}
    /\ ftTransfers[transfer_id].bytes_received = 2 * ChunkSize + Len(ChunkOf(ftFile, 2))
    /\ \A chunk_index \in 0..2 : ChunkOnDisk(transfer_id, chunk_index)
    /\ ftReplies # <<>>
    /\ ftReplies[1] = [type |-> "ChunkReceived", transfer_id |-> transfer_id, chunk_index |-> 2]

\* C17: a transfer of three chunks that is restarted with resume_offset =
\* 2 * chunk_size after chunks 0 and 1 were stored, followed by the client
\* sending only chunk 2, is accepted, reassembled from the chunks 0, 1, 2 in
\* order and answered with TransferComplete.
C17_ResumedTransferCompletes ==
    \A transfer_id \in FtTransferIds :
        ResumedWithLastChunk(transfer_id) =>
            /\ ftReplies[Len(ftReplies)].type = "TransferComplete"
            /\ ftTransfers[transfer_id].file_path \in DOMAIN ftStoredFiles
            /\ ftStoredFiles[ftTransfers[transfer_id].file_path] = ftFile

\* C18: when a SendChunk arrives whose data does not hash to its chunk_hash,
\* the server replies TransferError with the error ChunkIntegrityFailure and
\* does not store or count the chunk (and sends no ChunkReceived).
C18_DamagedChunkIsRefused ==
    [][\A transfer_id \in FtTransferIds, chunk_index \in 0..2 :
          (/\ transfer_id \in DOMAIN ftTransfers
           /\ Blake3Hash(ChunkData(transfer_id, ftFile, chunk_index, TRUE).data) #
                  ChunkData(transfer_id, ftFile, chunk_index, TRUE).chunk_hash
           /\ HandleSendChunk(ChunkData(transfer_id, ftFile, chunk_index, TRUE))) =>
              /\ ftReplies' = <<[type |-> "TransferError", transfer_id |-> transfer_id,
                                 error |-> "ChunkIntegrityFailure"]>>
              /\ UNCHANGED <<ftTransfers, ftChunkStorage, ftTempFiles>>]_vars

\* The last message handled ended in a reassembled file that failed
\* verification.
VerificationFailed(transfer_id) ==
    /\ transfer_id \in DOMAIN ftTransfers
    /\ ftReplies # <<>>
    /\ ftReplies[Len(ftReplies)] = [type |-> "TransferError", transfer_id |-> transfer_id,
                                    error |-> "File integrity verification failed"]

\* C19: when the hash of the reassembled file differs from the expected file
\* hash, the transfer is marked Corrupted; it is never left Completed.
C19_FailedVerificationMarksCorrupted ==
    \A transfer_id \in FtTransferIds :
        VerificationFailed(transfer_id) =>
            /\ ftTransfers[transfer_id].status = "Corrupted"
            /\ ftTransfers[transfer_id].status # "Completed"

\* Min 5 seconds between handovers (the interval of HandoverManager).
HANDOVER_COOLDOWN_MS == 5000

\* A handover from one path to another was performed less than the cooldown
\* ago.
InHandoverCooldown ==
    /\ hoEvents # <<>>
    /\ hoEvents[Len(hoEvents)].from_path # hoEvents[Len(hoEvents)].to_path
    /\ hoNow - hoEvents[Len(hoEvents)].timestamp < HANDOVER_COOLDOWN_MS

\* C21: after the coordinator performs a handover it sets the last-handover
\* timestamp of the path, and for at least 5 s no further handover is
\* performed: the current path and the recorded events stay as they are.
C21_NoHandoverWithinCooldown ==
    [][/\ \A to_path \in HoPaths, reason \in HoReasons :
            (to_path \in DOMAIN hoPaths /\ PerformHandover(to_path, reason)) =>
                hoPaths'[to_path].last_handover = Some(hoNow)
       /\ InHandoverCooldown => UNCHANGED <<hoCurrent, hoEvents>>]_vars

\* The reason-aware table: what a report in a state must lead to, where the
\* table has an entry.
TableTarget(from, reason) ==
    CASE from = "FullExperimental" /\ reason = "MultipathFailure" -> Some("QuicWithFec")
      [] from \in {"FullExperimental", "QuicWithFec"} /\ reason = "FecFailure" -> Some("QuicBasic")
      [] from = "QuicBasic" /\ reason = "ConnectionFailure" -> Some("TcpFallback")
      [] from = "TcpFallback" /\ reason = "ConnectionFailure" -> Some("MinimalFallback")
      [] OTHER -> None

\* FecFailure was reported in FullExperimental and ConnectionFailure right
\* after it, and both calls have returned.
FecThenConnectionFailure ==
    /\ InCall = {}
    /\ Len(fbHistory) = 2
    /\ fbHistory[1].from_state = "FullExperimental"
    /\ fbHistory[1].reason = "FecFailure"
    /\ fbHistory[2].from_state = fbHistory[1].to_state
    /\ fbHistory[2].reason = "ConnectionFailure"

\* C22: under Automatic a report whose state and reason are in the
\* reason-aware table goes on to the transition the table names; and
\* FecFailure in FullExperimental followed by ConnectionFailure ends in
\* TcpFallback, through QuicBasic whose feature set has FEC, multipath and
\* handover disabled, with one event recorded per report.
C22_TransitionsFollowTheTable ==
    /\ [][\A t \in Threads :
             (/\ ReportFailureDecide(t)
              /\ fbCall[t].strategy = "Automatic"
              /\ TableTarget(fbCall[t].from, fbCall[t].reason) # None) =>
                 /\ fbCall'[t].pc = "push_event"
                 /\ fbCall'[t].to = TableTarget(fbCall[t].from, fbCall[t].reason)[1]]_vars
    /\ [](FecThenConnectionFailure =>
             /\ fbState = "TcpFallback"
             /\ fbHistory[1].to_state = "QuicBasic"
             /\ ~GetConfigForState(fbHistory[1].to_state).enable_fec
             /\ ~GetConfigForState(fbHistory[1].to_state).enable_multipath
             /\ ~GetConfigForState(fbHistory[1].to_state).enable_handover)

C22_Witness ==
    /\ FecThenConnectionFailure
    /\ fbStrategy = "Automatic"
    /\ fbState = "TcpFallback"

\* The decision of a report_failure call goes on to perform_fallback, toward
\* a state strictly poorer than the one the failure was reported in.
DecidesToDemote(t) ==
    /\ fbCall'[t].pc = "push_event"
    /\ FbRank(fbCall'[t].to) > FbRank(fbCall[t].from)

\* C23: under Automatic, report_failure demotes the state on any failure:
\* for every reason and every current state above MinimalFallback the call
\* goes on to a state strictly poorer than before.
C23_AutomaticDemotesOnAnyFailure ==
    [][\A t \in Threads :
          (/\ ReportFailureDecide(t)
           /\ fbCall[t].strategy = "Automatic"
           /\ fbCall[t].from # "MinimalFallback") => DecidesToDemote(t)]_vars

\* failure_count of a state, an absent key read as 0.
FailuresIn(state) == IF state \in DOMAIN fbFailureCount THEN fbFailureCount[state] ELSE 0

\* C24: under Aggressive, the first failure reported while in a state does
\* not change the state, and the second failure reported in that state
\* demotes it, whatever the reasons of the failures.
C24_AggressiveDemotesOnSecondFailure ==
    [][\A t \in Threads :
          (/\ ReportFailureDecide(t)
           /\ fbCall[t].strategy = "Aggressive"
           /\ fbCall[t].from # "MinimalFallback") =>
              /\ FailuresIn(fbCall[t].from) = 1 =>
                     (fbCall'[t].pc = "idle" /\ fbReturned' = <<"report_failure", None>>)
              /\ FailuresIn(fbCall[t].from) = 2 => DecidesToDemote(t)]_vars

\* A manual demotion writes the state: perform_fallback called by
\* manual_fallback, or by report_failure with the reason Manual.
ManualDemotionWrites(t) ==
    /\ PerformFallbackWriteState(t)
    /\ \/ fbCall[t].op = "manual_fallback"
       \/ fbCall[t].op = "report_failure" /\ fbCall[t].reason = "Manual"

\* C25: a manual demotion (manual_fallback with or without a target, or
\* report_failure with the reason Manual) moves the state down exactly one
\* step of the state order: never more than one step and never upward.
C25_ManualDemotionIsOneStep ==
    [][\A t \in Threads :
          ManualDemotionWrites(t) => FbRank(fbState') = FbRank(fbState) + 1]_vars

\* C26: a session untouched for longer than the idle timeout is absent from
\* the session table: get_session never returns a session whose last
\* activity is older than the timeout.
C26_GetSessionNeverReturnsExpired ==
    (ssReturned.called /\ ssReturned.returned # None) =>
        ~IsExpired(ssReturned.returned[1], ssNow, SESSION_TIMEOUT_SECS)

\* C27: a packet of any priority, Medium included, whose preferred path is
\* known and healthy for its priority is returned by next_packet with that
\* path.
C27_PreferredHealthyPathIsUsed ==
    [][NextPacket =>
        \A i \in DOMAIN schedOut' :
            PreferenceUsable(schedOut'[i].packet.priority,
                             schedOut'[i].packet.path_preference, schedPaths)
                => schedOut'[i].path = schedOut'[i].packet.path_preference[1]]_vars

\* The server has read ConnectionEstablished on this connection.
EstablishedArrived ==
    \E i \in DOMAIN srvRead : srvRead[i] = "ConnectionEstablished"

\* C28: the session of the server becomes active only when the server has
\* received ConnectionEstablished from the client: before that message
\* arrives the session is not in the session table and no StartTransfer or
\* SendChunk is accepted on it.
C28_SessionActiveOnlyAfterEstablished ==
    /\ [](srvPc = "serving" /\ srvSessionId[1] \in DOMAIN ssSessions => EstablishedArrived)
    /\ [][(\/ \E transfer_id \in FtTransferIds, with_hash \in BOOLEAN :
                ServeStartTransfer(StartTransferRequest(transfer_id, ftFile, with_hash, None))
           \/ \E transfer_id \in FtTransferIds, chunk_index \in 0..ChunksTotal(Len(ftFile)) :
                ServeSendChunk(ChunkData(transfer_id, ftFile, chunk_index, FALSE)))
             => (EstablishedArrived \/ ftReplies' = <<>>)]_vars

\* A transfer accepted on a connection whose ConnectionEstablished has not
\* arrived.
TransferAcceptedBeforeEstablished ==
    /\ srvPc = "serving"
    /\ ~EstablishedArrived
    /\ ftReplies # <<>>
    /\ ftReplies[1].type = "TransferAccepted"
    /\ ssSessions[srvSessionId[1]].active_transfers # <<>>

\* The data_len a buffer announces: the field written after packet_type,
\* sequence, fec_block_id, shard_index and total_shards.
BufferDataLen(data) == FromBigEndian(SubSeq(data, 18, 19))

\* A buffer shorter than the header, or shorter than the header and the
\* payload it announces.
BufferTooShort(data) ==
    \/ Len(data) < HEADER_SIZE
    \/ Len(data) >= 19 /\ Len(data) < HEADER_SIZE + BufferDataLen(data)

\* C29: from_bytes returns the error of a malformed packet, never a packet
\* and never a crash, for every buffer shorter than 16 bytes and for every
\* buffer shorter than 16 + data_len, data_len read from the buffer's header.
C29_ShortBufferIsMalformed ==
    (parsed # None /\ BufferTooShort(wire[1])) =>
        /\ parsed[1].tag = "Err"
        /\ parsed[1].error \in {"Packet too short", "Header too short"}

\* from_bytes was given a buffer that holds the header's data_len and fewer
\* bytes than 16 + data_len.
ShortOfAnnouncedPayloadParsed ==
    /\ parsed # None
    /\ Len(wire[1]) >= 19
    /\ Len(wire[1]) < HEADER_SIZE + BufferDataLen(wire[1])

\* The blocks cleanup_old_blocks removes are older than every block kept.
EvictedAreTheOldest ==
    [][\A evicted \in DOMAIN decBlocks \ DOMAIN decBlocks', kept \in DOMAIN decBlocks' :
          evicted < kept]_vars

\* C30: the decoder keeps a bounded number of partially assembled blocks:
\* after any sequence of shard arrivals the number of blocks held never
\* exceeds the bound, and the blocks evicted when it is exceeded are the
\* oldest by arrival.
C30_HeldBlocksAreBounded ==
    /\ [](Cardinality(DOMAIN decBlocks) <= MaxHeldBlocks)
    /\ EvictedAreTheOldest

\* Every block that arrived is held and none is complete.
EveryBlockStillHeld ==
    /\ decLatest = MaxBlockIds
    /\ DOMAIN decBlocks = 1..MaxBlockIds
    /\ \A id \in DOMAIN decBlocks : decBlocks[id].received_count < DecInfo.data_shards

\* C31: get_multipath_batch(N) always terminates and returns at most N
\* packets, in every state of the scheduler; the head of a queue for which no
\* path is healthy stays queued.
C31_BatchTerminates ==
    [][\A max_packets \in 1..MaxBatch :
          GetMultipathBatch(max_packets) =>
              /\ ~schedHung'
              /\ Len(schedOut') <= max_packets
              /\ \A priority \in Priorities :
                    (/\ schedQueues[priority] # <<>>
                     /\ SelectPathForPriority(priority, Head(schedQueues[priority]).path_preference,
                                              schedPaths, schedOrder) = None)
                        => schedQueues'[priority] = schedQueues[priority]]_vars

\* The sizes of the chunks of a set of indexes, added up.
RECURSIVE SizeOfChunks(_, _)
SizeOfChunks(file, indexes) ==
    IF indexes = {} THEN 0
    ELSE LET chunk_index == CHOOSE i \in indexes : TRUE
         IN  Len(ChunkOf(file, chunk_index)) + SizeOfChunks(file, indexes \ {chunk_index})

\* The resume offset a transfer was started with.
InitialOffset(transfer_id) ==
    IF ftStarted[transfer_id].resume_offset = None THEN 0
    ELSE ftStarted[transfer_id].resume_offset[1]

\* C32: under any interleaving of concurrent store_chunk calls, two calls for
\* one chunk index included, bytes_received of a transfer is its initial
\* resume offset plus the sizes of the distinct chunk indexes in
\* chunks_received: a chunk index is counted at most once.
C32_BytesReceivedCountsEachChunkOnce ==
    \A transfer_id \in DOMAIN ftStarted :
        (\A t \in Threads : ftCalls[t].call.pc = "idle") =>
            ftTransfers[transfer_id].bytes_received =
                InitialOffset(transfer_id)
                    + SizeOfChunks(ftFile, ftTransfers[transfer_id].chunks_received)

\* The server has reassembled the file of a transfer.
Reassembled(transfer_id) ==
    /\ transfer_id \in DOMAIN ftTransfers
    /\ ftTransfers[transfer_id].status = "Completed"

\* C33: for each transfer the server reassembles the file and sends
\* TransferComplete at most once, whatever SendChunk messages arrive,
\* duplicates of chunks after the transfer has completed included.
C33_TransferCompletesAtMostOnce ==
    [][\A transfer_id \in FtTransferIds :
          Reassembled(transfer_id) =>
              \A i \in DOMAIN ftReplies' :
                  ftReplies'[i].transfer_id = transfer_id
                      => ftReplies'[i].type # "TransferComplete"]_vars

\* The packets of one priority among those a call returned, in the order of
\* the Vec.
RECURSIVE PacketsOfPriority(_, _)
PacketsOfPriority(out, priority) ==
    IF out = <<>> THEN <<>>
    ELSE IF Head(out).packet.priority = priority
    THEN <<Head(out).packet>> \o PacketsOfPriority(Tail(out), priority)
    ELSE PacketsOfPriority(Tail(out), priority)

\* The packets a queue holds after the first k.
QueueAfter(queue, k) == SubSeq(queue, k + 1, Len(queue))

\* C34: within a priority the scheduler is FIFO and lossless: over schedule,
\* next_packet and get_multipath_batch calls a packet leaves its queue only by
\* being returned by the call that removes it, the packets a call returns of
\* one priority are the first of that queue in the order they were scheduled,
\* and what it returns is no longer queued, so that nothing is returned twice.
\* A step that neither schedules nor updates the path table is a call of
\* next_packet or get_multipath_batch.
C34_FifoAndLossless ==
    [][LET returning == /\ schedScheduled' = schedScheduled
                        /\ schedPaths' = schedPaths
                        /\ schedOrder' = schedOrder
       IN  \A priority \in Priorities :
              LET before == schedQueues[priority]
                  after == schedQueues'[priority]
                  returned == IF returning /\ ~schedHung'
                              THEN PacketsOfPriority(schedOut', priority) ELSE <<>>
              IN  IF returning
                  THEN /\ Len(returned) <= Len(before)
                       /\ returned = SubSeq(before, 1, Len(returned))
                       /\ after = QueueAfter(before, Len(returned))
                  ELSE /\ Len(after) >= Len(before)
                       /\ SubSeq(after, 1, Len(before)) = before]_vars

\* C34 witness: two packets of one priority were scheduled and a call has
\* returned the first while the second is still queued.
C34_Witness ==
    \E priority \in Priorities :
        /\ Len(schedQueues[priority]) = 1
        /\ Len(schedOut) = 1
        /\ schedOut[1].packet.priority = priority
        /\ schedOut[1].packet.sequence < schedQueues[priority][1].sequence

\* The server has stored every chunk of the client's file, reassembled it and
\* verified it.
ServerVerifiedTheFile ==
    /\ XfTransferId \in DOMAIN ftTransfers
    /\ ftTransfers[XfTransferId].status = "Completed"
    /\ ftTransfers[XfTransferId].file_path \in DOMAIN ftStoredFiles
    /\ VerifyFile(ftTransfers, ftStoredFiles, XfTransferId)

\* C35: in a run of a transfer of several chunks in which the server stores
\* every chunk and its verification succeeds, the client has read the
\* server's TransferComplete and the status of its transfer is Completed when
\* transfer_file returns.
C35_ClientSeesCompletion ==
    (/\ xfClient.pc = "returned"
     /\ xfClient.total_chunks > 1
     /\ ServerVerifiedTheFile)
        => xfClient.status = "Completed"

\* C36: under any interleaving of handover_to calls, a call that returned Ok
\* has made its new_path the current path or found it already current, so
\* every Handover packet sent names a path that became current.
C36_OkMeansPathBecameCurrent ==
    \A t \in HmTasks :
        hmCalls[t].pc \in {"returned_ok", "sent"}
            => hmCalls[t].outcome \in {"switched", "already_current"}

\* The paths next_packet assigns to k Medium packets returned one after the
\* other, the path table staying as it is.
RECURSIVE MediumRun(_, _, _, _)
MediumRun(k, paths, order, counter) ==
    IF k = 0 THEN <<>>
    ELSE LET packet == [priority |-> "Medium", stream_id |-> 1, sequence |-> 0,
                        path_preference |-> None]
             r == NextPacketFrom(1, PriorityOrder, paths, order,
                                 [priority \in Priorities |->
                                     IF priority = "Medium" THEN <<packet>> ELSE <<>>],
                                 counter)
         IN  IF r.out = <<>> THEN <<>>
             ELSE <<r.out[1].path>> \o MediumRun(k - 1, paths, order, r.counter)

\* C37: with n >= 1 paths healthy for Medium in a path table that stays as
\* it is, a Medium packet returned by next_packet and the n - 1 Medium
\* packets next_packet returns after it are assigned to n distinct healthy
\* paths; no other call moves the round robin.
C37_MediumRoundRobin ==
    [][LET n == Len(FilterHealthy(schedOrder, schedPaths, "Medium"))
           run == <<schedOut'[1].path>> \o
                      MediumRun(n - 1, schedPaths, schedOrder, medium_rr_counter')
       IN  /\ medium_rr_counter' # medium_rr_counter
               => /\ schedOut' # <<>>
                  /\ schedOut'[1].packet.priority = "Medium"
                  /\ n >= 1
                  /\ Len(run) = n
                  /\ \A i, j \in 1..n : i # j => run[i] # run[j]
                  /\ \A i \in 1..n : /\ run[i] \in DOMAIN schedPaths
                                     /\ IsHealthy(schedPaths[run[i]], "Medium")
           /\ (/\ schedPaths' = schedPaths
               /\ schedScheduled' = schedScheduled
               /\ schedQueues'["Medium"] # schedQueues["Medium"]
               /\ Len(schedOut') = 1
               /\ \A priority \in Priorities \ {"Medium"} :
                      schedQueues'[priority] = schedQueues[priority]
               /\ ~(\E max_packets \in 1..MaxBatch : GetMultipathBatch(max_packets)))
               => medium_rr_counter' = medium_rr_counter + 1]_vars

\* Two Medium packets were returned by next_packet one after the other with
\* two paths healthy for Medium.
C37_Witness ==
    /\ medium_rr_counter = 2
    /\ Len(FilterHealthy(schedOrder, schedPaths, "Medium")) = 2
    /\ schedOut # <<>>
    /\ schedOut[1].packet.priority = "Medium"

\* C38: no operation holds a lock on a shared structure while it is suspended
\* at an await that performs disk or network I/O: while cleanup_incomplete
\* awaits fs::remove_file it holds no lock.
C38_NoLockHeldAcrossAwait ==
    clAwait # None => clLocks = {}

\* C39: the buffer holds at most max_size chunks, and the chunk add takes
\* out of a full buffer does not have a priority strictly higher
\* (numerically smaller) than a chunk that stays in the buffer.
C39_BoundedAndEvictsLowest ==
    /\ Len(tbBuffer) <= tbMaxSize
    /\ tbEvicted # None =>
           \A i \in 1..Len(tbBuffer) :
               tbBuffer[i].data # tbAdded - 1
                   => ~(tbEvicted[1].priority < tbBuffer[i].priority)

\* C40: whenever handle_connection has ended, by a close or by an error, its
\* connection id is not in active_connections and the session created for it
\* is not in the session table.
C40_EndedConnectionLeavesNothing ==
    srvPc \in {"closed", "failed"}
        => /\ SrvConnId \notin srvActive
           /\ SrvSessionIdNew \notin DOMAIN ssSessions


=============================================================================
